---- MODULE Spec2Model ----
(***************************************************************************)
(* Ticket lifecycle of the Project Manager agent                           *)
(* (src/src/agents/projectManager.ts): create_ticket, update_ticket_body,  *)
(* kanban_move_ticket_to_todo and kanban_move_ticket_to_other_repo_todo    *)
(* run as concurrent turns against one shared ticket store.  Every await   *)
(* of a store call is one atomic step; the steps of different turns        *)
(* interleave freely.                                                      *)
(*                                                                         *)
(* Text is modelled structurally.  A string that the code formats or       *)
(* parses (ticket references, display identifiers, repository names) is a  *)
(* sequence of one-character strings.  A ticket body is a sequence of      *)
(* lines; each line is a record that keeps what the code's regular         *)
(* expressions look at.  The store has the migrated (repo-scoped) schema;  *)
(* SpecLegacy runs create_ticket against a store without these columns.   *)
(* SpecRunner is one turn of runPmAgent, SpecLocal one call of a local    *)
(* file tool.                                                              *)
(***************************************************************************)
EXTENDS Integers, Sequences, FiniteSets, TLC

\* ------------------------------------------------------------------------
\* Bounds of the model
\* ------------------------------------------------------------------------
NumProcs == 2

MaxOps == 2

MaxTickets == 3

MaxFaults == 1

\* ------------------------------------------------------------------------
\* Program constants
\* ------------------------------------------------------------------------
MAX_CREATE_TICKET_RETRIES == 10

COL_UNASSIGNED == "col-unassigned"

COL_TODO == "col-todo"

COL_QA == "col-qa"

LEGACY_REPO == "legacy/unknown"

RepoA == "o/x-2-hal"

RepoB == "o/kb"

NoProject == ""

BadTarget == "kb"

\* ------------------------------------------------------------------------
\* Characters and numbers
\* ------------------------------------------------------------------------
Min(a, b) == IF a < b THEN a ELSE b

Max(a, b) == IF a > b THEN a ELSE b

DigitChars == <<"0", "1", "2", "3", "4", "5", "6", "7", "8", "9">>

LowerChars == <<"a", "b", "c", "d", "e", "f", "g", "h", "i", "j", "k", "l", "m",
                "n", "o", "p", "q", "r", "s", "t", "u", "v", "w", "x", "y", "z">>

UpperChars == <<"A", "B", "C", "D", "E", "F", "G", "H", "I", "J", "K", "L", "M",
                "N", "O", "P", "Q", "R", "S", "T", "U", "V", "W", "X", "Y", "Z">>

IsDigit(c) == \E i \in 1..10 : DigitChars[i] = c

IsLower(c) == \E i \in 1..26 : LowerChars[i] = c

IsUpper(c) == \E i \in 1..26 : UpperChars[i] = c

IsAlnum(c) == IsDigit(c) \/ IsLower(c) \/ IsUpper(c)

DigitVal(c) == (CHOOSE i \in 1..10 : DigitChars[i] = c) - 1

ToUpper(c) == IF IsLower(c) THEN UpperChars[CHOOSE i \in 1..26 : LowerChars[i] = c] ELSE c

ToLower(c) == IF IsUpper(c) THEN LowerChars[CHOOSE i \in 1..26 : UpperChars[i] = c] ELSE c

MapChars(F(_), s) == [i \in 1..Len(s) |-> F(s[i])]

\* String(n) for a non-negative integer n.
RECURSIVE NumToChars(_)
NumToChars(n) == IF n < 10 THEN <<DigitChars[n + 1]>>
                 ELSE Append(NumToChars(n \div 10), DigitChars[(n % 10) + 1])

\* parseInt(s, 10) for a sequence of digit characters.
RECURSIVE CharsToNum(_)
CharsToNum(s) == IF s = <<>> THEN 0
                 ELSE 10 * CharsToNum(SubSeq(s, 1, Len(s) - 1)) + DigitVal(s[Len(s)])

\* s.padStart(4, '0')
PadStart4(s) == IF Len(s) >= 4 THEN s ELSE [i \in 1..(4 - Len(s)) |-> "0"] \o s

\* An id cut to its last 4 digits.
LegacyIdLast4(n) ==
  LET s == PadStart4(NumToChars(n)) IN SubSeq(s, Len(s) - 3, Len(s))

\* String(n).padStart(4, '0'): the legacy string id of ticket number n.
LegacyId(n) == PadStart4(NumToChars(n))

\* Characters of the repository names the model uses.
RepoChars(r) ==
  CASE r = RepoA -> <<"o", "/", "x", "-", "2", "-", "h", "a", "l">>
    [] r = RepoB -> <<"o", "/", "k", "b">>
    [] r = LEGACY_REPO -> <<"l", "e", "g", "a", "c", "y", "/", "u", "n", "k", "n", "o", "w", "n">>
    [] r = BadTarget -> <<"k", "b">>
    [] OTHER -> <<>>

\* s.includes('/')
HasSlash(s) == \E i \in 1..Len(s) : s[i] = "/"

\* repoFullName.split('/').pop()
LastSegment(s) ==
  IF HasSlash(s)
  THEN LET k == CHOOSE i \in 1..Len(s) : s[i] = "/" /\ \A j \in (i + 1)..Len(s) : s[j] # "/"
       IN SubSeq(s, k + 1, Len(s))
  ELSE s

\* s.split(/[^a-z0-9]+/g).filter(Boolean) for a lower-cased s.
RECURSIVE SplitTokens(_)
SplitTokens(s) ==
  IF s = <<>> THEN <<>>
  ELSE IF ~IsAlnum(s[1]) THEN SplitTokens(Tail(s))
  ELSE LET stops == {i \in 1..Len(s) : ~IsAlnum(s[i])}
           e == IF stops = {} THEN Len(s) + 1 ELSE CHOOSE i \in stops : \A j \in stops : i <= j
       IN <<SubSeq(s, 1, e - 1)>> \o SplitTokens(SubSeq(s, e, Len(s)))

SelectLetters(s) == SelectSeq(s, LAMBDA c : IsLower(c) \/ IsUpper(c))

\* repoHintPrefix: the last token of the repository name that has a letter
\* and 2..6 characters, upper-cased; else the first 4 letters; else PRJ.
repoHintPrefix(repoFullName) ==
  LET repo == LastSegment(RepoChars(repoFullName))
      tokens == SplitTokens(MapChars(ToLower, repo))
      good == {i \in 1..Len(tokens) :
                 /\ \E j \in 1..Len(tokens[i]) : IsLower(tokens[i][j])
                 /\ Len(tokens[i]) >= 2
                 /\ Len(tokens[i]) <= 6}
      letters == MapChars(ToUpper, SelectLetters(repo))
  IN IF good # {}
     THEN MapChars(ToUpper, tokens[CHOOSE i \in good : \A j \in good : j <= i])
     ELSE IF letters # <<>> THEN SubSeq(letters, 1, Min(4, Len(letters)))
     ELSE <<"P", "R", "J">>

\* `${prefix}-${id}`
DisplayId(prefix, n) == prefix \o <<"-">> \o LegacyId(n)

\* Length of the maximal run of digits that ends at position e of s.
RECURSIVE DigitRunLen(_, _)
DigitRunLen(s, e) == IF e = 0 \/ ~IsDigit(s[e]) THEN 0 ELSE 1 + DigitRunLen(s, e - 1)

\* parseTicketNumber: /(\d{1,4})(?!.*\d)/, the last (at most) 4 digits of
\* the last run of digits; 0 stands for null (the callers test !ticketNumber,
\* which treats 0 and null alike).
parseTicketNumber(ref) ==
  LET digs == {i \in 1..Len(ref) : IsDigit(ref[i])}
  IN IF digs = {} THEN 0
     ELSE LET e == CHOOSE i \in digs : \A j \in digs : j <= i
              n == Min(4, DigitRunLen(ref, e))
          IN CharsToNum(SubSeq(ref, e - n + 1, e))

\* The number written after the last '-' of a display identifier.
DisplaySuffix(did) == SubSeq(did, Len(did) - DigitRunLen(did, Len(did)) + 1, Len(did))

\* The part of a display identifier before its numeric suffix and '-'.
DisplayPrefix(did) == SubSeq(did, 1, Len(did) - DigitRunLen(did, Len(did)) - 1)

\* ------------------------------------------------------------------------
\* Ticket bodies
\* ------------------------------------------------------------------------
\* A body is a sequence of lines.  k is the kind of the line:
\*   "h"      a heading, `#` (level 1) or `##` (level 2), with title txt
\*   "blank"  an empty line
\*   "text"   a line of prose
\*   "ph"     a line of prose holding a placeholder token such as <AC 1>
\*   "bullet" `- item`
\*   "check"  `- [ ] item`
\*   "title"  `- **Title**: id1 — id2 — ... — text`, ids = <<id1, id2, ...>>
Line(k, level, txt, ids) == [k |-> k, level |-> level, txt |-> txt, ids |-> ids]

H2(t) == Line("h", 2, t, <<>>)

H1(t) == Line("h", 1, t, <<>>)

Blank == Line("blank", 0, "", <<>>)

Text == Line("text", 0, "", <<>>)

Ph == Line("ph", 0, "", <<>>)

Bullet == Line("bullet", 0, "", <<>>)

Check == Line("check", 0, "", <<>>)

TitleLine(ids) == Line("title", 0, "", ids)

SEC_GOAL == "Goal (one sentence)"

SEC_DELIVERABLE == "Human-verifiable deliverable (UI-only)"

SEC_AC == "Acceptance criteria (UI-only)"

SEC_CONSTRAINTS == "Constraints"

SEC_NONGOALS == "Non-goals"

\* String.prototype.trim on a body: leading and trailing empty lines go.
RECURSIVE TrimLines(_)
TrimLines(b) ==
  IF b = <<>> THEN b
  ELSE IF b[1].k = "blank" THEN TrimLines(Tail(b))
  ELSE IF b[Len(b)].k = "blank" THEN TrimLines(SubSeq(b, 1, Len(b) - 1))
  ELSE b

\* normalizeBodyForReady: trim, then `# Goal` etc. become the canonical
\* `##` headings.
normalizeBodyForReady(bodyMd) ==
  LET out == TrimLines(bodyMd)
      Fix(l) ==
        IF l.k = "h" /\ l.level = 1
        THEN CASE l.txt = "Goal" -> H2(SEC_GOAL)
               [] l.txt = "Human-verifiable deliverable" -> H2(SEC_DELIVERABLE)
               [] l.txt = "Acceptance criteria" -> H2(SEC_AC)
               [] l.txt = "Constraints" -> H2(SEC_CONSTRAINTS)
               [] l.txt = "Non-goals" -> H2(SEC_NONGOALS)
               [] OTHER -> l
        ELSE l
  IN [i \in 1..Len(out) |-> Fix(out[i])]

\* Where /##\s+<title>\s*\n([\s\S]*?)(?=\n## |$)/ matches first: the index of
\* the heading line (0 when there is no match).  The heading needs a line
\* break after it, so a heading that is the last line does not match.
SectionHead(body, sectionTitle) ==
  LET heads == {i \in 1..(Len(body) - 1) :
                  body[i].k = "h" /\ body[i].level = 2 /\ body[i].txt = sectionTitle}
  IN IF heads = {} THEN 0 ELSE CHOOSE i \in heads : \A j \in heads : i <= j

\* First line of the capture group: `\s*\n` is greedy and swallows the empty
\* lines after the heading, so the group starts at the first non-empty line
\* after the heading, whatever that line is (Len + 1 when there is none).
SectionStart(body, h) ==
  LET ne == {i \in (h + 1)..Len(body) : body[i].k # "blank"}
  IN IF ne = {} THEN Len(body) + 1 ELSE CHOOSE i \in ne : \A j \in ne : i <= j

\* Last line of the capture group: the line before the first `## ` line that
\* comes after the first line of the group, or the last line of the body.
SectionEnd(body, s) ==
  LET nh == {i \in (s + 1)..Len(body) : body[i].k = "h" /\ body[i].level = 2}
  IN IF nh = {} THEN Len(body) ELSE (CHOOSE i \in nh : \A j \in nh : i <= j) - 1

\* sectionContent: the trimmed capture group, '' when there is no match.
sectionContent(body, sectionTitle) ==
  LET h == SectionHead(body, sectionTitle)
      s == SectionStart(body, h)
  IN IF h = 0 \/ s > Len(body) THEN <<>>
     ELSE TrimLines(SubSeq(body, s, SectionEnd(body, s)))

\* body.match(PLACEHOLDER_RE): the lines that hold a placeholder token.
Placeholders(body) == SelectSeq(body, LAMBDA l : l.k = "ph")

\* The first check left out.
InputPlaceholdersSkipped(bodyMd) == <<>>

\* The first check of create_ticket and update_ticket_body:
\* input.body_md.trim().match(PLACEHOLDER_RE).
InputPlaceholders(bodyMd) == Placeholders(TrimLines(bodyMd))

\* /^(?:[A-Za-z0-9]{2,10}-)?\d{4}\s*[—–-]\s*/ at the head of a title value:
\* an id of exactly 4 digits, alone or after a 2..10 character prefix and '-'.
MatchesIdPrefix(id) ==
  LET n == Len(id)
  IN /\ n >= 4
     /\ \A i \in (n - 3)..n : IsDigit(id[i])
     /\ \/ n = 4
        \/ /\ n >= 7
           /\ n <= 15
           /\ id[n - 4] = "-"
           /\ \A i \in 1..(n - 5) : IsAlnum(id[i])

\* normalizeTitleLineInBody: the first Title line loses a leading id that
\* the pattern above matches and gets `<ticketId> — ` in front.
normalizeTitleLineInBody(bodyMd, ticketId) ==
  LET titles == {i \in 1..Len(bodyMd) : bodyMd[i].k = "title"}
  IN IF bodyMd = <<>> \/ ticketId = <<>> \/ titles = {} THEN bodyMd
     ELSE LET t == CHOOSE i \in titles : \A j \in titles : i <= j
              old == bodyMd[t].ids
              rest == IF old # <<>> /\ MatchesIdPrefix(old[1]) THEN Tail(old) ELSE old
          IN [bodyMd EXCEPT ![t] = TitleLine(<<ticketId>> \o rest)]

\* /-\s*\[\s*\]/.test(ac)
HasCheckbox(sec) == \E i \in 1..Len(sec) : sec[i].k = "check"

\* /^[\s]*[-*+]\s+/m.test(ac): a line that starts as a list item.
IsListItem(l) == l.k \in {"bullet", "check", "title"}

HasListItem(sec) == \E i \in 1..Len(sec) : IsListItem(sec[i])

\* evaluateTicketReady with a ready flag that leaves the Non-goals out.
evaluateTicketReadyWithoutNonGoals(bodyMd) ==
  LET body == TrimLines(bodyMd)
      goal == sectionContent(body, SEC_GOAL)
      deliverable == sectionContent(body, SEC_DELIVERABLE)
      ac == sectionContent(body, SEC_AC)
      constraints == sectionContent(body, SEC_CONSTRAINTS)
      nonGoals == sectionContent(body, SEC_NONGOALS)
      \* the last conjunct is !/^<[^>]*>$/.test(goal.trim()): the Goal is
      \* not one angle-bracket token and nothing else
      goalOk == /\ Len(goal) > 0
                /\ Placeholders(goal) = <<>>
                /\ ~(Len(goal) = 1 /\ goal[1].k = "ph")
      deliverableOk == Len(deliverable) > 0 /\ Placeholders(deliverable) = <<>>
      acOk == HasCheckbox(ac)
      constraintsOk == Len(constraints) > 0
      nonGoalsOk == Len(nonGoals) > 0
      noPlaceholdersOk == Placeholders(body) = <<>>
  IN [ready |-> goalOk /\ deliverableOk /\ acOk /\ constraintsOk /\ noPlaceholdersOk,
      missingItems |->
        (IF goalOk THEN <<>> ELSE <<"Goal (one sentence) missing or placeholder">>)
        \o (IF deliverableOk THEN <<>>
            ELSE <<"Human-verifiable deliverable missing or placeholder">>)
        \o (IF acOk THEN <<>> ELSE <<"Acceptance criteria checkboxes missing">>)
        \o (IF constraintsOk THEN <<>> ELSE <<"Constraints section missing or empty">>)
        \o (IF nonGoalsOk THEN <<>> ELSE <<"Non-goals section missing or empty">>)
        \o (IF noPlaceholdersOk THEN <<>> ELSE <<"Unresolved placeholders">>),
      checklistResults |->
        [goal |-> goalOk,
         deliverable |-> deliverableOk,
         acceptanceCriteria |-> acOk,
         constraintsNonGoals |-> constraintsOk /\ nonGoalsOk,
         noPlaceholders |-> noPlaceholdersOk]]

evaluateTicketReady(bodyMd) ==
  LET body == TrimLines(bodyMd)
      goal == sectionContent(body, SEC_GOAL)
      deliverable == sectionContent(body, SEC_DELIVERABLE)
      ac == sectionContent(body, SEC_AC)
      constraints == sectionContent(body, SEC_CONSTRAINTS)
      nonGoals == sectionContent(body, SEC_NONGOALS)
      \* the last conjunct is !/^<[^>]*>$/.test(goal.trim()): the Goal is
      \* not one angle-bracket token and nothing else
      goalOk == /\ Len(goal) > 0
                /\ Placeholders(goal) = <<>>
                /\ ~(Len(goal) = 1 /\ goal[1].k = "ph")
      deliverableOk == Len(deliverable) > 0 /\ Placeholders(deliverable) = <<>>
      acOk == HasCheckbox(ac)
      constraintsOk == Len(constraints) > 0
      nonGoalsOk == Len(nonGoals) > 0
      noPlaceholdersOk == Placeholders(body) = <<>>
  IN [ready |-> goalOk /\ deliverableOk /\ acOk /\ constraintsOk /\ nonGoalsOk
                  /\ noPlaceholdersOk,
      missingItems |->
        (IF goalOk THEN <<>> ELSE <<"Goal (one sentence) missing or placeholder">>)
        \o (IF deliverableOk THEN <<>>
            ELSE <<"Human-verifiable deliverable missing or placeholder">>)
        \o (IF acOk THEN <<>> ELSE <<"Acceptance criteria checkboxes missing">>)
        \o (IF constraintsOk THEN <<>> ELSE <<"Constraints section missing or empty">>)
        \o (IF nonGoalsOk THEN <<>> ELSE <<"Non-goals section missing or empty">>)
        \o (IF noPlaceholdersOk THEN <<>> ELSE <<"Unresolved placeholders">>),
      checklistResults |->
        [goal |-> goalOk,
         deliverable |-> deliverableOk,
         acceptanceCriteria |-> acOk,
         constraintsNonGoals |-> constraintsOk /\ nonGoalsOk,
         noPlaceholders |-> noPlaceholdersOk]]

\* create_ticket's auto-fix applies when the Acceptance criteria section has
\* list items but no checkbox.
AutoFixApplies(body) ==
  LET acSection == sectionContent(body, SEC_AC)
  IN acSection # <<>> /\ ~HasCheckbox(acSection) /\ HasListItem(acSection)

\* acSection.replace(/^(\s*)[-*+]\s+/gm, '$1- [ ] ') and
\* finalBodyMd.replace(acRegex, `$1${fixedAc}\n`): the list items of the
\* section become checkboxes; the swallowed empty lines stay with the
\* heading, and one line break follows the fixed section.
AutoFixBody(body) ==
  LET h == SectionHead(body, SEC_AC)
      s == SectionStart(body, h)
      e == SectionEnd(body, s)
      acSection == TrimLines(SubSeq(body, s, e))
      fixedAc == [i \in 1..Len(acSection) |->
                    IF IsListItem(acSection[i]) THEN Check ELSE acSection[i]]
  IN SubSeq(body, 1, s - 1) \o fixedAc \o <<Blank>> \o SubSeq(body, e + 1, Len(body))

\* ------------------------------------------------------------------------
\* Inputs of the model
\* ------------------------------------------------------------------------
Procs == 1..NumProcs

\* config.projectId of a turn: a connected repository or none.
Projects == {RepoA, NoProject}

\* target_repo_full_name of a cross-repository move.
Targets == {RepoA, RepoB, BadTarget}

\* A fully populated body with a Title line, canonical headings, a checkbox.
BodyReady ==
  <<TitleLine(<<>>), Blank, H2(SEC_GOAL), Text, H2(SEC_DELIVERABLE), Text,
    H2(SEC_AC), Check, H2(SEC_CONSTRAINTS), Text, H2(SEC_NONGOALS), Text>>

\* The same with legacy `#` headings and plain bullets as acceptance criteria.
BodyBullets ==
  <<TitleLine(<<>>), Blank, H1("Goal"), Text, H1("Human-verifiable deliverable"), Text,
    H1("Acceptance criteria"), Blank, Bullet, Bullet, Blank, H1("Constraints"), Text,
    H1("Non-goals"), Text>>

\* A body with a placeholder token left in the Goal section.
BodyPlaceholder ==
  <<TitleLine(<<>>), Blank, H2(SEC_GOAL), Ph, H2(SEC_DELIVERABLE), Text,
    H2(SEC_AC), Check, H2(SEC_CONSTRAINTS), Text, H2(SEC_NONGOALS), Text>>

\* A body without Title line, acceptance criteria and non-goals.
BodyDraft == <<H2(SEC_GOAL), Text, H2(SEC_CONSTRAINTS), Text>>

Bodies == {BodyReady, BodyBullets, BodyPlaceholder, BodyDraft}

\* How many inserts of one create_ticket the store rejects for a uniqueness
\* conflict on its id/filename index although the sequence number is free.
ForcedConflicts == {0, 1, MAX_CREATE_TICKET_RETRIES}

\* A ticket row.  pk is the index of the row in the store.
Row(repo, num, col, pos, body) ==
  [repo |-> repo, num |-> num, did |-> DisplayId(repoHintPrefix(repo), num),
   id |-> LegacyId(num), col |-> col, pos |-> pos,
   body |-> normalizeTitleLineInBody(body, DisplayId(repoHintPrefix(repo), num))]

\* Stores a run can start from: empty; a ready ticket that the board has
\* moved on to QA; a draft numbered 9999 in Unassigned.
InitStores ==
  {<<>>,
   <<Row(RepoA, 1, COL_QA, 1, BodyReady)>>,
   <<Row(RepoA, 9999, COL_UNASSIGNED, 0, BodyDraft)>>}

\* Ticket references a turn may pass: the display identifier of a stored
\* ticket, or 0099.
Refs(st) == {st[i].did : i \in 1..Len(st)} \cup {<<"0", "0", "9", "9">>}

\* ------------------------------------------------------------------------
\* State
\* ------------------------------------------------------------------------
VARIABLES
  store,   \* the tickets table: a sequence of rows
  pc,      \* pc[p]: where turn p stands in its tool call
  op,      \* op[p]: the tool and the input of p's current or last call
  loc,     \* loc[p]: the local variables of p's tool call
  res,     \* res[p]: the output of p's last finished tool call
  trace,   \* trace[p]: the store calls p's current or last tool call issued
  ops,     \* number of tool calls started
  faults,  \* number of store failures injected
  schema,  \* "migrated": the table has the repository-scoping columns
           \* repo_full_name, ticket_number, display_id; "legacy": it lacks them
  phase,            \* where the turn of runPmAgent stands
  steps,            \* requests sent to the completion endpoint in the turn
  toolCalls,        \* the turn's Tool Call Record (toolCalls.push)
  capturedRequest,  \* the request body kept by the fetch wrapper, or NoRequest
  contextPack,      \* the prompt text built by buildContextPack
  result,           \* the PmAgentResult returned by the turn, or NoResult
  config,           \* the PmAgentConfig of the turn (store credentials)
  tools,            \* the names of the tools handed to generateText
  call,             \* the running call of a local tool: input and locals
  fsLog,            \* the sandbox and filesystem calls of that call, in order
  toolOut,          \* the output of the local tool call, or NoOut
  fnArg,            \* the argument of a pure function under check
  fnRet,            \* what the function returned for it, or NoRet
  chk               \* the running call of checkUnassignedTickets: locals and result

\* A configured string, or undefined: typeof value === 'string' is .defined.
Undefined == [defined |-> FALSE, value |-> <<>>]

Str(value) == [defined |-> TRUE, value |-> value]

\* The values of config.supabaseUrl and config.supabaseAnonKey: absent,
\* empty, blank, and a value with white space around it.
CredentialValues == {Undefined, Str(<<>>), Str(<<" ">>), Str(<<" ", "u", " ">>)}

Configs == [supabaseUrl : CredentialValues, supabaseAnonKey : CredentialValues]

IsSpace(c) == c \in {" ", "\t", "\n"}

\* String.prototype.trim
trim(value) ==
  LET keep == {i \in 1..Len(value) : ~IsSpace(value[i])}
  IN IF keep = {} THEN <<>>
     ELSE SubSeq(value, CHOOSE i \in keep : \A j \in keep : i <= j,
                        CHOOSE i \in keep : \A j \in keep : j <= i)

\* Store tools whenever the URL alone is configured.
hasSupabaseUrlOnly(cfg) ==
  cfg.supabaseUrl.defined /\ trim(cfg.supabaseUrl.value) # <<>>

hasSupabase(cfg) ==
  /\ cfg.supabaseUrl.defined
  /\ trim(cfg.supabaseUrl.value) # <<>>
  /\ cfg.supabaseAnonKey.defined
  /\ trim(cfg.supabaseAnonKey.value) # <<>>

ticketVars == <<store, pc, op, loc, res, trace, ops, faults, schema>>

runnerVars == <<phase, steps, toolCalls, capturedRequest, contextPack, result,
                config, tools>>

localVars == <<call, fsLog, toolOut>>

pureVars == <<fnArg, fnRet>>

checkVars == <<chk>>

vars == <<store, pc, op, loc, res, trace, ops, faults, schema,
          phase, steps, toolCalls, capturedRequest, contextPack, result,
          config, tools, call, fsLog, toolOut, fnArg, fnRet, chk>>

NoOp == [tool |-> "none", project |-> NoProject, ref |-> <<>>, body |-> <<>>,
         target |-> NoProject, forced |-> 0]

NoLoc == [num |-> 0, start |-> 0, attempt |-> 0, pk |-> 0, rdid |-> <<>>, rbody |-> <<>>,
          body |-> <<>>, nextNum |-> 0, nextPos |-> 0, ready |-> FALSE, fixed |-> FALSE,
          fromCol |-> ""]

NoRes == [tool |-> "none", success |-> FALSE, error |-> "", ready |-> FALSE,
          moved |-> FALSE, moveError |-> FALSE, attempts |-> 0, num |-> 0, did |-> <<>>,
          repo |-> NoProject, pk |-> 0, detected |-> <<>>, fromColumn |-> "",
          content |-> <<>>]

NoTrace == [calls |-> 0, tried |-> <<>>, writes |-> 0]

\* let capturedRequest: object | null = null
NoRequest == [n |-> 0, input |-> <<>>]

\* A reply without text.
NoReply == [kind |-> "", about |-> NoRes]

\* No PmAgentResult yet.
NoResult == [reply |-> NoReply, toolCalls |-> <<>>, outboundRequest |-> NoRequest,
             error |-> "", errorPhase |-> ""]

\* No local tool call running.
NoCallLocal == [tool |-> "none", pc |-> "idle", path |-> <<>>, maxLines |-> 0,
                pattern |-> "", glob |-> <<>>, safe |-> <<>>, stack |-> <<>>,
                matches |-> <<>>]

\* No output yet.
NoOut == [kind |-> "none", error |-> "", entries |-> <<>>, content |-> <<>>,
          more |-> 0, matches |-> <<>>]

\* checkUnassignedTickets not called.
NoCheck == [pc |-> "idle", rows |-> <<>>, groups |-> <<>>, rowsInRepo |-> <<>>,
            nextTodoPosition |-> 0, moved |-> <<>>, notReady |-> <<>>,
            result |-> [moved |-> <<>>, notReady |-> <<>>, error |-> ""]]

\* The state of the turns before any call.
InitTurns ==
  /\ pc = [p \in Procs |-> "idle"]
  /\ op = [p \in Procs |-> NoOp]
  /\ loc = [p \in Procs |-> NoLoc]
  /\ res = [p \in Procs |-> NoRes]
  /\ trace = [p \in Procs |-> NoTrace]
  /\ ops = 0
  /\ faults = 0
  /\ phase = "building-context"
  /\ steps = 0
  /\ toolCalls = <<>>
  /\ capturedRequest = NoRequest
  /\ contextPack = <<>>
  /\ result = NoResult
  /\ config \in Configs
  /\ tools = {}
  /\ call = NoCallLocal
  /\ fsLog = <<>>
  /\ toolOut = NoOut
  /\ chk = NoCheck

\* No function applied.
NoArg == [type |-> "none"]

NoRet == [done |-> FALSE, value |-> NoArg]

Init ==
  /\ store \in InitStores
  /\ schema = "migrated"
  /\ InitTurns
  /\ fnArg = NoArg
  /\ fnRet = NoRet

\* ------------------------------------------------------------------------
\* The store
\* ------------------------------------------------------------------------
Pks(st) == 1..Len(st)

\* .eq('repo_full_name', repo).eq('ticket_number', num)
ByRepoNum(st, repo, num) == {i \in Pks(st) : st[i].repo = repo /\ st[i].num = num}

\* .eq('id', id)
ById(st, id) == {i \in Pks(st) : st[i].id = id}

\* The store answers a query or a write that names repo_full_name,
\* ticket_number or display_id with "column does not exist"
\* (isUnknownColumnError).
UnknownColumns == schema = "legacy"

\* The unique index on (repo_full_name, ticket_number): TRUE when two rows
\* of st share a repository and a sequence number.  Without these columns
\* the legacy id is the unique key.
UniqueViolated(st) ==
  \E i, j \in Pks(st) :
     /\ i # j
     /\ IF UnknownColumns THEN st[i].id = st[j].id
        ELSE st[i].repo = st[j].repo /\ st[i].num = st[j].num

\* An error classifier that takes every error for a uniqueness conflict.
isUniqueViolationAny(err) == err # ""

\* isUniqueViolation: the error is Postgres' 23505.
isUniqueViolation(err) == err = "23505"

\* The maximum query without its repository filter.
MaxTicketNumberAnyRepo(st, repo) ==
  LET nums == {st[i].num : i \in Pks(st)}
  IN IF nums = {} THEN 0 ELSE CHOOSE n \in nums : \A m \in nums : m <= n

\* .select('ticket_number').eq('repo_full_name', repo).order(desc).limit(1):
\* the largest sequence number of the repository, 0 for no row.
MaxTicketNumber(st, repo) ==
  LET nums == {st[i].num : i \in {j \in Pks(st) : st[j].repo = repo}}
  IN IF nums = {} THEN 0 ELSE CHOOSE n \in nums : \A m \in nums : m <= n

\* .select('kanban_position').eq('kanban_column_id', COL_TODO)[.eq(repo)]
\* .order(desc).limit(1), reduced with Math.max from 0, plus one.  An empty
\* repo means no repository filter.
NextTodoPosition(st, repo) ==
  LET poss == {st[i].pos : i \in {j \in Pks(st) :
                 st[j].col = COL_TODO /\ (repo = NoProject \/ st[j].repo = repo)}}
  IN (IF poss = {} THEN 0 ELSE Max(0, CHOOSE n \in poss : \A m \in poss : m <= n)) + 1

\* Legacy fallback of create_ticket: .select('id') of all rows, parseInt of
\* each id, and the largest of them; 0 for no row.
LegacyMaxId(st) ==
  LET nums == {CharsToNum(st[i].id) : i \in Pks(st)}
  IN IF nums = {} THEN 0 ELSE CHOOSE n \in nums : \A m \in nums : m <= n

\* A store call may fail; f says whether this one does.
FaultOk(f) == f \in BOOLEAN /\ (f => faults < MaxFaults /\ ops + faults < MaxOps)

\* ------------------------------------------------------------------------
\* Bookkeeping shared by the tools
\* ------------------------------------------------------------------------
\* A tool call of turn p returns r (toolCalls.push(...); return out).
Finish(p, r) ==
  /\ pc' = [pc EXCEPT ![p] = "idle"]
  /\ res' = [res EXCEPT ![p] = r]
  /\ loc' = [loc EXCEPT ![p] = NoLoc]
  /\ op' = [op EXCEPT ![p] = NoOp]
  /\ UNCHANGED <<schema, runnerVars, localVars, pureVars, checkVars>>

\* Turn p goes on to the step at label l with locals v.
Goto(p, l, v) ==
  /\ pc' = [pc EXCEPT ![p] = l]
  /\ loc' = [loc EXCEPT ![p] = v]
  /\ UNCHANGED <<res, op>>
  /\ UNCHANGED <<schema, runnerVars, localVars, pureVars, checkVars>>

Failure(tool, error) == [NoRes EXCEPT !.tool = tool, !.error = error]

\* p starts a tool call: a run has at most MaxOps events, an event being a
\* tool call that starts or a store failure that is injected.  Turns
\* are interchangeable, so turn p waits until the turns before it have
\* started theirs.
CanStart(p) ==
  /\ hasSupabase(config)
  /\ pc[p] = "idle"
  /\ ops + faults < MaxOps
  /\ \A q \in Procs : q < p => pc[q] # "idle" \/ res[q].tool # "none"

\* The model invokes a tool of turn p with input o; nf store failures are
\* committed to with the call.
Invoke(p, o, label, nf) ==
  /\ CanStart(p)
  /\ faults + nf <= MaxFaults
  /\ ops + 1 + faults + nf <= MaxOps
  /\ pc' = [pc EXCEPT ![p] = label]
  /\ op' = [op EXCEPT ![p] = o]
  /\ res' = [res EXCEPT ![p] = NoRes]
  /\ trace' = [trace EXCEPT ![p] = NoTrace]
  /\ ops' = ops + 1
  /\ faults' = faults + nf
  /\ UNCHANGED <<store, loc>>
  /\ UNCHANGED <<schema, runnerVars, localVars, pureVars, checkVars>>

\* A step of a handler that issues no store call.
NoCall == UNCHANGED <<store, trace, faults, ops>>

\* One store call more, one fault more when it failed, w writes more.
Logged(p, f, w) ==
  /\ trace' = [trace EXCEPT ![p].calls = @ + 1, ![p].writes = @ + w]
  /\ faults' = faults + (IF f THEN 1 ELSE 0)

\* A store call that reads.
Called(p, f) == Logged(p, f, 0)

\* A read that names a scoping column: on "column does not exist" the
\* handler issues its legacy query as a second call; f is the failure of
\* the last call issued.
CalledWithFallback(p, f) ==
  /\ trace' = [trace EXCEPT ![p].calls = @ + (IF UnknownColumns THEN 2 ELSE 1)]
  /\ faults' = faults + (IF f THEN 1 ELSE 0)

\* A tool call rejected for the placeholder tokens found in body.
Rejected(tool, found) ==
  [Failure(tool, "placeholders") EXCEPT !.detected = found]

\* repoFullName of create_ticket: the project, or legacy/unknown.
CreateRepo(project) == IF project # NoProject THEN project ELSE LEGACY_REPO

\* The rows a create_ticket follow-up write addresses: by repository and
\* number when a project is connected, else by legacy id.
CreatedRows(st, project, num) ==
  IF CreateRepo(project) # LEGACY_REPO /\ num # 0
  THEN ByRepoNum(st, CreateRepo(project), num)
  ELSE ById(st, LegacyId(num))

\* The follow-up write of create_ticket names repo_full_name and
\* ticket_number, and the store lacks them: the update fails.
CreatedRowsUnknown(project, num) ==
  UnknownColumns /\ CreateRepo(project) # LEGACY_REPO /\ num # 0

\* ------------------------------------------------------------------------
\* create_ticket
\* ------------------------------------------------------------------------
\* The model calls create_ticket{title, body_md}.
CallCreateTicket(p) ==
  /\ Len(store) + Cardinality({q \in Procs : pc[q] \in {"c_start", "c_insert"}}) < MaxTickets
  /\ \E project \in Projects, body \in Bodies, forced \in ForcedConflicts :
       /\ forced > 0 => Placeholders(body) = <<>>
       /\ Invoke(p, [NoOp EXCEPT !.tool = "create_ticket", !.project = project,
                       !.body = body, !.forced = forced],
                 "c_start", IF forced > 0 THEN 1 ELSE 0)

\* startNum: one past the largest ticket_number of the repository; when the
\* store lacks the column, one past the largest legacy id of all rows.
StartNum(st, repoFullName) ==
  IF UnknownColumns THEN LegacyMaxId(st) + 1 ELSE MaxTicketNumber(st, repoFullName) + 1

\* Placeholder check on the trimmed input, heading normalization, and the
\* query for the repository's largest sequence number.
CreateBegin(p) ==
  /\ pc[p] = "c_start"
  /\ LET bodyMdTrimmed == TrimLines(op[p].body)
         placeholders == InputPlaceholders(op[p].body)
     IN IF placeholders # <<>>
        THEN /\ Finish(p, Rejected("create_ticket", placeholders))
             /\ NoCall
        ELSE \E f \in BOOLEAN :
               /\ FaultOk(f)
               /\ CalledWithFallback(p, f)
               /\ UNCHANGED <<store, ops>>
               /\ IF f
                  THEN Finish(p, Failure("create_ticket", "fetch"))
                  ELSE Goto(p, "c_insert",
                            [NoLoc EXCEPT
                               !.body = normalizeBodyForReady(bodyMdTrimmed),
                               !.start = StartNum(store, CreateRepo(op[p].project)),
                               !.attempt = 1])

\* The candidate number that fails to advance: every attempt retries the
\* first candidate.
NextCandidateStuck(startNum, attempt) == startNum

\* const candidateNum = startNum + attempt - 1
NextCandidate(startNum, attempt) == startNum + attempt - 1

\* The output of a create_ticket that inserted its row as pk on the given
\* attempt: identifiers of the candidate of that attempt.
CreateResult(project, startNum, attempt, pk) ==
  [NoRes EXCEPT !.tool = "create_ticket", !.success = TRUE, !.attempts = attempt,
                !.num = NextCandidate(startNum, attempt), !.repo = CreateRepo(project),
                !.pk = pk,
                !.did = DisplayId(repoHintPrefix(CreateRepo(project)),
                                  NextCandidate(startNum, attempt))]

\* An insert that is never refused for a taken sequence number.
InsertErrorUnchecked(st, row, f, forcedNow) ==
  IF f THEN "500" ELSE IF forcedNow THEN "23505" ELSE ""

\* The error of the insert of row: a store failure, a uniqueness conflict
\* (the sequence number is taken, or the conflict is forced), or none.
InsertError(st, row, f, forcedNow) ==
  IF f THEN "500"
  ELSE IF forcedNow \/ UniqueViolated(Append(st, row)) THEN "23505"
  ELSE ""

\* What create_ticket does after a successful insert, before any further
\* store call: evaluate, try the checkbox auto-fix, decide the next step.
AfterInsert(p, normalizedBodyMd, okRes) ==
  LET readiness == evaluateTicketReady(normalizedBodyMd)
      fixedBody == AutoFixBody(normalizedBodyMd)
  IN IF ~readiness.ready /\ AutoFixApplies(normalizedBodyMd)
     THEN IF evaluateTicketReady(fixedBody).ready
          THEN Goto(p, "c_fix", [loc[p] EXCEPT !.body = fixedBody, !.rbody = normalizedBodyMd,
                                              !.pk = okRes.pk])
          ELSE Finish(p, okRes)
     ELSE IF readiness.ready
     THEN Goto(p, "c_pos", [loc[p] EXCEPT !.body = normalizedBodyMd, !.ready = TRUE,
                                         !.pk = okRes.pk])
     ELSE Finish(p, okRes)

\* The row of the legacy insert, issued when the insert that names the
\* scoping columns fails with "column does not exist".
LegacyInsertRow(id, bodyMdTrimmed) ==
  [repo |-> NoProject, num |-> 0, did |-> <<>>, id |-> id, col |-> COL_UNASSIGNED,
   pos |-> 0, body |-> normalizeTitleLineInBody(bodyMdTrimmed, id)]

\* One pass of the retry loop: candidate number, identifiers, Title line,
\* second placeholder check, insert.
CreateInsert(p) ==
  /\ pc[p] = "c_insert"
  /\ \E f \in BOOLEAN :
       LET repoFullName == CreateRepo(op[p].project)
           attempt == loc[p].attempt
           candidateNum == NextCandidate(loc[p].start, attempt)
           id == LegacyId(candidateNum)
           displayId == repoHintPrefix(repoFullName) \o <<"-">> \o id
           normalizedBodyMd == normalizeTitleLineInBody(loc[p].body, displayId)
           row == IF UnknownColumns
                  THEN LegacyInsertRow(id, loc[p].body)
                  ELSE [repo |-> repoFullName, num |-> candidateNum, did |-> displayId,
                        id |-> id, col |-> COL_UNASSIGNED, pos |-> 0,
                        body |-> normalizedBodyMd]
           insertError == InsertError(store, row, f, attempt <= op[p].forced)
           okRes == CreateResult(op[p].project, loc[p].start, attempt, Len(store) + 1)
       IN /\ FaultOk(f)
          /\ UNCHANGED ops
          /\ IF Placeholders(normalizedBodyMd) # <<>>
             THEN /\ ~f
                  /\ Finish(p, Rejected("create_ticket", Placeholders(normalizedBodyMd)))
                  /\ UNCHANGED <<store, trace, faults>>
             ELSE /\ faults' = faults + (IF f THEN 1 ELSE 0)
                  /\ trace' = [trace EXCEPT ![p].calls = @ + (IF UnknownColumns THEN 2 ELSE 1),
                                 ![p].writes = @ + (IF insertError = "" THEN 1 ELSE 0),
                                 ![p].tried = Append(@, [num |-> candidateNum,
                                                         error |-> insertError,
                                                         forced |-> attempt <= op[p].forced])]
                  /\ IF insertError = ""
                     THEN /\ store' = Append(store, row)
                          /\ AfterInsert(p, normalizedBodyMd, okRes)
                     ELSE /\ UNCHANGED store
                          /\ IF ~isUniqueViolation(insertError)
                             THEN Finish(p, Failure("create_ticket", "insert"))
                             ELSE IF attempt + 1 <= MAX_CREATE_TICKET_RETRIES
                             THEN Goto(p, "c_insert", [loc[p] EXCEPT !.attempt = attempt + 1])
                             ELSE Finish(p, [Failure("create_ticket", "exhausted")
                                               EXCEPT !.attempts = attempt])

\* The auto-fix made the body ready: write the fixed body; when the write
\* fails, fall back to the body as inserted (not ready).
CreateFixUpdate(p) ==
  /\ pc[p] = "c_fix"
  /\ \E f \in BOOLEAN :
       LET candidateNum == NextCandidate(loc[p].start, loc[p].attempt)
           rows == CreatedRows(store, op[p].project, candidateNum)
           okRes == CreateResult(op[p].project, loc[p].start, loc[p].attempt, loc[p].pk)
       IN /\ FaultOk(f)
          /\ Logged(p, f, IF f \/ CreatedRowsUnknown(op[p].project, candidateNum) THEN 0 ELSE 1)
          /\ UNCHANGED ops
          /\ IF f \/ CreatedRowsUnknown(op[p].project, candidateNum)
             THEN /\ UNCHANGED store
                  /\ Finish(p, okRes)
             ELSE /\ store' = [i \in Pks(store) |->
                                 IF i \in rows THEN [store[i] EXCEPT !.body = loc[p].body]
                                 ELSE store[i]]
                  /\ Goto(p, "c_pos", [loc[p] EXCEPT !.ready = TRUE, !.fixed = TRUE])

\* An auto-move failure that fails the whole creation.
MoveFailedAsFailure(okRes) == Failure("create_ticket", "move")

\* The output of a create_ticket whose auto-move failed: success with the
\* created identifiers and ...(moveError && { moveError }).
MoveFailed(okRes) == [okRes EXCEPT !.moveError = TRUE]

\* Auto-move, first half: the largest position in the To Do column.
CreatePosQuery(p) ==
  /\ pc[p] = "c_pos"
  /\ \E f \in BOOLEAN :
       LET repoFullName == CreateRepo(op[p].project)
           candidateNum == NextCandidate(loc[p].start, loc[p].attempt)
           okRes == [CreateResult(op[p].project, loc[p].start, loc[p].attempt, loc[p].pk)
                       EXCEPT !.ready = TRUE]
       IN /\ FaultOk(f)
          /\ IF repoFullName # LEGACY_REPO THEN CalledWithFallback(p, f) ELSE Called(p, f)
          /\ UNCHANGED <<ops, store>>
          /\ IF f
             THEN Finish(p, MoveFailed(okRes))
             ELSE Goto(p, "c_move",
                       [loc[p] EXCEPT !.nextPos =
                          NextTodoPosition(store, IF repoFullName # LEGACY_REPO /\ ~UnknownColumns
                                                  THEN repoFullName ELSE NoProject)])

\* The column and position written by every move into To Do.
MoveToTodo(row, position) == [row EXCEPT !.col = COL_TODO, !.pos = position]

\* Auto-move, second half: the update of column and position.
CreateMove(p) ==
  /\ pc[p] = "c_move"
  /\ \E f \in BOOLEAN :
       LET repoFullName == CreateRepo(op[p].project)
           candidateNum == NextCandidate(loc[p].start, loc[p].attempt)
           rows == CreatedRows(store, op[p].project, candidateNum)
           okRes == [CreateResult(op[p].project, loc[p].start, loc[p].attempt, loc[p].pk)
                       EXCEPT !.ready = TRUE]
       IN /\ FaultOk(f)
          /\ Logged(p, f, IF f \/ CreatedRowsUnknown(op[p].project, candidateNum) THEN 0 ELSE 1)
          /\ UNCHANGED ops
          /\ IF f \/ CreatedRowsUnknown(op[p].project, candidateNum)
             THEN /\ UNCHANGED store
                  /\ Finish(p, MoveFailed(okRes))
             ELSE /\ store' = [i \in Pks(store) |->
                                 IF i \in rows THEN MoveToTodo(store[i], loc[p].nextPos)
                                 ELSE store[i]]
                  /\ Finish(p, [okRes EXCEPT !.moved = TRUE])

\* ------------------------------------------------------------------------
\* Ticket lookup shared by update_ticket_body and the two move tools
\* ------------------------------------------------------------------------
\* The row lookup: by (project, ticket number) when a project is connected,
\* else by legacy id.  maybeSingle() fails when several rows match, and the
\* store call itself may fail (f).  Only the first lookup selects pk and
\* display_id.
Lookup(st, project, ticketNumber, f) ==
  LET rows == IF project # NoProject
              THEN ByRepoNum(st, project, ticketNumber)
              ELSE ById(st, LegacyId(ticketNumber))
  IN IF f \/ Cardinality(rows) > 1 THEN [error |-> TRUE, found |-> FALSE, row |-> 0, pk |-> 0]
     ELSE IF rows = {} THEN [error |-> FALSE, found |-> FALSE, row |-> 0, pk |-> 0]
     ELSE LET i == CHOOSE r \in rows : TRUE
          IN [error |-> FALSE, found |-> TRUE, row |-> i,
              pk |-> IF project # NoProject THEN i ELSE 0]

\* The rows an update addresses: .eq('pk', row.pk) when the lookup selected
\* pk, else .eq('id', normalizedId).
UpdateRows(st, pk, ticketNumber) ==
  IF pk # 0 THEN {pk} ELSE ById(st, LegacyId(ticketNumber))

InUnassigned(col) == col = COL_UNASSIGNED \/ col = ""

\* ------------------------------------------------------------------------
\* update_ticket_body
\* ------------------------------------------------------------------------
\* The model calls update_ticket_body{ticket_id, body_md}.
CallUpdateTicketBody(p) ==
  \E project \in Projects, ref \in Refs(store),
     body \in {BodyReady, BodyPlaceholder, BodyDraft} :
    Invoke(p, [NoOp EXCEPT !.tool = "update_ticket_body", !.project = project,
                 !.ref = ref, !.body = body], "u_start", 0)

\* Placeholder check, heading normalization, reference parsing, row lookup,
\* Title line normalization, second placeholder check.
UpdateBegin(p) ==
  /\ pc[p] = "u_start"
  /\ LET ticketNumber == parseTicketNumber(op[p].ref)
         bodyMdTrimmed == TrimLines(op[p].body)
         tool == "update_ticket_body"
     IN IF InputPlaceholders(op[p].body) # <<>>
        THEN Finish(p, Rejected(tool, InputPlaceholders(op[p].body))) /\ NoCall
        ELSE IF ticketNumber = 0
        THEN Finish(p, Failure(tool, "parse")) /\ NoCall
        ELSE \E f \in BOOLEAN :
               LET r == Lookup(store, op[p].project, ticketNumber, f)
                   displayId == IF op[p].project # NoProject THEN store[r.row].did
                                ELSE LegacyId(ticketNumber)
                   normalizedBodyMd ==
                     normalizeTitleLineInBody(normalizeBodyForReady(bodyMdTrimmed), displayId)
               IN /\ FaultOk(f)
                  /\ Called(p, f)
                  /\ UNCHANGED <<store, ops>>
                  /\ IF r.error THEN Finish(p, Failure(tool, "fetch"))
                     ELSE IF ~r.found THEN Finish(p, Failure(tool, "notfound"))
                     ELSE IF Placeholders(normalizedBodyMd) # <<>>
                     THEN Finish(p, Rejected(tool, Placeholders(normalizedBodyMd)))
                     ELSE Goto(p, "u_update", [NoLoc EXCEPT !.num = ticketNumber,
                                                 !.pk = r.pk, !.body = normalizedBodyMd])

\* The update of body_md, and the readiness of the written body.
UpdateWrite(p) ==
  /\ pc[p] = "u_update"
  /\ \E f \in BOOLEAN :
       LET rows == UpdateRows(store, loc[p].pk, loc[p].num)
       IN /\ FaultOk(f)
          /\ Logged(p, f, IF f THEN 0 ELSE 1)
          /\ UNCHANGED ops
          /\ IF f
             THEN /\ UNCHANGED store
                  /\ Finish(p, Failure("update_ticket_body", "update"))
             ELSE /\ store' = [i \in Pks(store) |->
                                 IF i \in rows THEN [store[i] EXCEPT !.body = loc[p].body]
                                 ELSE store[i]]
                  /\ Finish(p, [NoRes EXCEPT !.tool = "update_ticket_body",
                                  !.success = TRUE, !.num = loc[p].num,
                                  !.ready = evaluateTicketReady(loc[p].body).ready])

\* ------------------------------------------------------------------------
\* kanban_move_ticket_to_todo
\* ------------------------------------------------------------------------
\* The model calls kanban_move_ticket_to_todo{ticket_id}.
CallMoveToTodo(p) ==
  \E project \in Projects, ref \in Refs(store) :
    Invoke(p, [NoOp EXCEPT !.tool = "kanban_move_ticket_to_todo", !.project = project,
                 !.ref = ref], "m_start", 0)

\* Reference parsing, row lookup, and the check of the column just read.
MoveBegin(p) ==
  /\ pc[p] = "m_start"
  /\ LET ticketNumber == parseTicketNumber(op[p].ref)
         tool == "kanban_move_ticket_to_todo"
     IN IF ticketNumber = 0
        THEN Finish(p, Failure(tool, "parse")) /\ NoCall
        ELSE \E f \in BOOLEAN :
               LET r == Lookup(store, op[p].project, ticketNumber, f)
               IN /\ FaultOk(f)
                  /\ Called(p, f)
                  /\ UNCHANGED <<store, ops>>
                  /\ IF r.error THEN Finish(p, Failure(tool, "fetch"))
                     ELSE IF ~r.found THEN Finish(p, Failure(tool, "notfound"))
                     ELSE IF ~InUnassigned(store[r.row].col)
                     THEN Finish(p, Failure(tool, "not in Unassigned"))
                     ELSE Goto(p, "m_pos", [NoLoc EXCEPT !.num = ticketNumber, !.pk = r.pk])

\* The query for the largest position in To Do.
MovePosQuery(p) ==
  /\ pc[p] = "m_pos"
  /\ \E f \in BOOLEAN :
       /\ FaultOk(f)
       /\ Called(p, f)
       /\ UNCHANGED <<ops, store>>
       /\ IF f
          THEN Finish(p, Failure("kanban_move_ticket_to_todo", "fetch"))
          ELSE Goto(p, "m_update",
                    [loc[p] EXCEPT !.nextPos = NextTodoPosition(store, op[p].project)])

\* The update of column and position.
MoveWrite(p) ==
  /\ pc[p] = "m_update"
  /\ \E f \in BOOLEAN :
       LET rows == UpdateRows(store, loc[p].pk, loc[p].num)
       IN /\ FaultOk(f)
          /\ Logged(p, f, IF f THEN 0 ELSE 1)
          /\ UNCHANGED ops
          /\ IF f
             THEN /\ UNCHANGED store
                  /\ Finish(p, Failure("kanban_move_ticket_to_todo", "update"))
             ELSE /\ store' = [i \in Pks(store) |->
                                 IF i \in rows THEN MoveToTodo(store[i], loc[p].nextPos)
                                 ELSE store[i]]
                  /\ Finish(p, [NoRes EXCEPT !.tool = "kanban_move_ticket_to_todo",
                                  !.success = TRUE, !.num = loc[p].num])

\* ------------------------------------------------------------------------
\* kanban_move_ticket_to_other_repo_todo
\* ------------------------------------------------------------------------
\* The model calls kanban_move_ticket_to_other_repo_todo{ticket_id,
\* target_repo_full_name}.
CallMoveToOtherRepo(p) ==
  \E project \in Projects, ref \in Refs(store), target \in Targets :
    Invoke(p, [NoOp EXCEPT !.tool = "kanban_move_ticket_to_other_repo_todo",
                 !.project = project, !.ref = ref, !.target = target], "x_start", 0)

\* const currentCol = row.kanban_column_id ?? 'col-unassigned'
CurrentCol(row) == IF row.col = "" THEN COL_UNASSIGNED ELSE row.col

\* Reference parsing, target syntax check, row lookup.
XMoveBegin(p) ==
  /\ pc[p] = "x_start"
  /\ LET ticketNumber == parseTicketNumber(op[p].ref)
         targetRepo == RepoChars(op[p].target)
         tool == "kanban_move_ticket_to_other_repo_todo"
     IN IF ticketNumber = 0
        THEN Finish(p, Failure(tool, "parse")) /\ NoCall
        ELSE IF targetRepo = <<>> \/ ~HasSlash(targetRepo)
        THEN Finish(p, Failure(tool, "target format")) /\ NoCall
        ELSE \E f \in BOOLEAN :
               LET r == Lookup(store, op[p].project, ticketNumber, f)
               IN /\ FaultOk(f)
                  /\ Called(p, f)
                  /\ UNCHANGED <<store, ops>>
                  /\ IF r.error THEN Finish(p, Failure(tool, "fetch"))
                     ELSE IF ~r.found THEN Finish(p, Failure(tool, "notfound"))
                     ELSE Goto(p, "x_check", [NoLoc EXCEPT !.num = ticketNumber,
                                                !.pk = r.pk, !.rbody = store[r.row].body,
                                                !.fromCol = CurrentCol(store[r.row])])

\* A target check that takes a repository without tickets for missing.
XMoveTargetCheckNeedsTickets(p) ==
  /\ pc[p] = "x_check"
  /\ \E f \in BOOLEAN :
       /\ FaultOk(f)
       /\ Called(p, f)
       /\ UNCHANGED <<ops, store>>
       /\ IF f \/ \A i \in Pks(store) : store[i].repo # op[p].target
          THEN Finish(p, Failure("kanban_move_ticket_to_other_repo_todo", "target check"))
          ELSE Goto(p, "x_num", loc[p])

\* A target check that also turns away a ticket outside Unassigned.
XMoveTargetCheckUnassignedOnly(p) ==
  /\ pc[p] = "x_check"
  /\ \E f \in BOOLEAN :
       /\ FaultOk(f)
       /\ Called(p, f)
       /\ UNCHANGED <<ops, store>>
       /\ IF f \/ ~InUnassigned(loc[p].fromCol)
          THEN Finish(p, Failure("kanban_move_ticket_to_other_repo_todo", "target check"))
          ELSE Goto(p, "x_num", loc[p])

\* The target check: a query for one row of the target repository; only a
\* failing query stops the move.
XMoveTargetCheck(p) ==
  /\ pc[p] = "x_check"
  /\ \E f \in BOOLEAN :
       /\ FaultOk(f)
       /\ Called(p, f)
       /\ UNCHANGED <<ops, store>>
       /\ IF f
          THEN Finish(p, Failure("kanban_move_ticket_to_other_repo_todo", "target check"))
          ELSE Goto(p, "x_num", loc[p])

\* The next sequence number: one past the target's largest, or the parsed
\* number of the reference when the target has no ticket.
XMoveMaxNumber(p) ==
  /\ pc[p] = "x_num"
  /\ \E f \in BOOLEAN :
       LET maxN == MaxTicketNumber(store, op[p].target)
       IN /\ FaultOk(f)
          /\ Called(p, f)
          /\ UNCHANGED <<ops, store>>
          /\ IF f
             THEN Finish(p, Failure("kanban_move_ticket_to_other_repo_todo", "max number"))
             ELSE Goto(p, "x_pos",
                       [loc[p] EXCEPT !.nextNum = IF ByRepoNum(store, op[p].target, maxN) # {}
                                                  THEN maxN + 1 ELSE loc[p].num])

\* The next position in the target's To Do column.
XMovePosQuery(p) ==
  /\ pc[p] = "x_pos"
  /\ \E f \in BOOLEAN :
       /\ FaultOk(f)
       /\ Called(p, f)
       /\ UNCHANGED <<ops, store>>
       /\ IF f
          THEN Finish(p, Failure("kanban_move_ticket_to_other_repo_todo", "fetch"))
          ELSE Goto(p, "x_update",
                    [loc[p] EXCEPT !.nextPos = NextTodoPosition(store, op[p].target)])

\* An update that leaves display_id and body_md for a second write.
XMoveUpdateDataPartial(row, targetRepo, nextTicketNumber, nextTodoPosition, currentBodyMd) ==
  [row EXCEPT !.repo = targetRepo, !.num = nextTicketNumber,
              !.col = COL_TODO, !.pos = nextTodoPosition]

\* updateData applied to a row: repository, number, display identifier,
\* column, position, and the body with its Title line rewritten from the
\* body that the lookup read (when that body is not empty).
XMoveUpdateData(row, targetRepo, nextTicketNumber, nextTodoPosition, currentBodyMd) ==
  LET newDisplayId == repoHintPrefix(targetRepo) \o <<"-">> \o LegacyId(nextTicketNumber)
  IN [row EXCEPT !.repo = targetRepo, !.num = nextTicketNumber, !.did = newDisplayId,
                 !.col = COL_TODO, !.pos = nextTodoPosition,
                 !.body = IF currentBodyMd # <<>>
                          THEN normalizeTitleLineInBody(currentBodyMd, newDisplayId)
                          ELSE row.body]

\* The error of an update that would leave the table as st: a store
\* failure, a uniqueness conflict, or none.
UpdateError(st, f) == IF f THEN "500" ELSE IF UniqueViolated(st) THEN "23505" ELSE ""

\* The one update that moves the ticket.
XMoveWrite(p) ==
  /\ pc[p] = "x_update"
  /\ \E f \in BOOLEAN :
       LET rows == UpdateRows(store, loc[p].pk, loc[p].num)
           tool == "kanban_move_ticket_to_other_repo_todo"
           updated == [i \in Pks(store) |->
                         IF i \in rows
                         THEN XMoveUpdateData(store[i], op[p].target, loc[p].nextNum,
                                              loc[p].nextPos, loc[p].rbody)
                         ELSE store[i]]
           updateError == UpdateError(updated, f)
       IN /\ FaultOk(f)
          /\ Logged(p, f, IF updateError = "" THEN 1 ELSE 0)
          /\ UNCHANGED ops
          /\ IF updateError # ""
             THEN /\ UNCHANGED store
                  /\ Finish(p, Failure(tool, "update"))
             ELSE /\ store' = updated
                  /\ Finish(p, [NoRes EXCEPT !.tool = tool, !.success = TRUE,
                                  !.num = loc[p].nextNum, !.repo = op[p].target,
                                  !.fromColumn = loc[p].fromCol,
                                  !.did = DisplayId(repoHintPrefix(op[p].target),
                                                    loc[p].nextNum)])

Next ==
  \E p \in Procs :
    \/ CallCreateTicket(p)
    \/ CreateBegin(p)
    \/ CreateInsert(p)
    \/ CreateFixUpdate(p)
    \/ CreatePosQuery(p)
    \/ CreateMove(p)
    \/ CallUpdateTicketBody(p)
    \/ UpdateBegin(p)
    \/ UpdateWrite(p)
    \/ CallMoveToTodo(p)
    \/ MoveBegin(p)
    \/ MovePosQuery(p)
    \/ MoveWrite(p)
    \/ CallMoveToOtherRepo(p)
    \/ XMoveBegin(p)
    \/ XMoveTargetCheck(p)
    \/ XMoveMaxNumber(p)
    \/ XMovePosQuery(p)
    \/ XMoveWrite(p)

Spec == Init /\ [][Next]_vars

\* The tools on a board that holds a ready ticket numbered 1 in Unassigned,
\* alone or beside a ticket in To Do.
MoveStores ==
  {<<Row(RepoA, 1, COL_UNASSIGNED, 0, BodyReady)>>,
   <<Row(RepoA, 1, COL_UNASSIGNED, 0, BodyReady), Row(RepoA, 2, COL_TODO, 1, BodyReady)>>}

InitMove ==
  /\ store \in MoveStores
  /\ schema = "migrated"
  /\ InitTurns
  /\ fnArg = NoArg
  /\ fnRet = NoRet

SpecMove == InitMove /\ [][Next]_vars

\* create_ticket against a store that lacks the repository-scoping columns.
\* A row of such a store has a legacy id only.
LegacyRow(num, col, pos, body) ==
  [repo |-> NoProject, num |-> 0, did |-> <<>>, id |-> LegacyId(num), col |-> col,
   pos |-> pos, body |-> normalizeTitleLineInBody(body, LegacyId(num))]

\* Legacy stores a run can start from: empty; a ticket 0007 in To Do.
LegacyStores == {<<>>, <<LegacyRow(7, COL_TODO, 3, BodyReady)>>}

InitLegacy ==
  /\ store \in LegacyStores
  /\ schema = "legacy"
  /\ InitTurns
  /\ fnArg = NoArg
  /\ fnRet = NoRet

NextLegacy ==
  \E p \in Procs :
    \/ CallCreateTicket(p)
    \/ CreateBegin(p)
    \/ CreateInsert(p)
    \/ CreateFixUpdate(p)
    \/ CreatePosQuery(p)
    \/ CreateMove(p)

SpecLegacy == InitLegacy /\ [][NextLegacy]_vars

\* ------------------------------------------------------------------------
\* runPmAgent: one turn of the agent runner
\* ------------------------------------------------------------------------
\* A turn builds the context pack and hands the tools to generateText, which
\* sends requests to the completion endpoint and runs the tools that the
\* responses ask for.  The tool outputs are drawn from the outputs that the
\* tools above return.  A string is a sequence of tokens; a token is text or
\* a value that one of the redaction patterns matches.

\* Ticket tool calls, and reads of a file that holds a secret, recorded in
\* one turn.
MaxMutations == 2

MAX_TOOL_ITERATIONS == 10

REDACTED == "[REDACTED]"

\* A token that OPENAI_KEY_PATTERN matches.
OPENAI_KEY == "sk-0123456789abcdefghij"

\* A token that JWT_PATTERN matches.
JWT == "eyJh.eyJz.c2ln"

\* A token that SUPABASE_URL_PATTERN matches.
SUPABASE_URL == "https://p.supabase.co"

\* value.replace(pattern, REDACTED) with a global pattern.
ReplaceAll(value, pattern) ==
  [i \in 1..Len(value) |-> IF value[i] = pattern THEN REDACTED ELSE value[i]]

redactString(value) ==
  ReplaceAll(ReplaceAll(ReplaceAll(value, OPENAI_KEY), JWT), SUPABASE_URL)

\* redact of a request body: a copy whose strings are redacted; the number
\* is kept.
redact(obj) == [n |-> obj.n, input |-> redactString(obj.input)]

\* The tools built only with hasSupabase.
StoreTools ==
  {"create_ticket", "fetch_ticket_content", "update_ticket_body", "sync_tickets",
   "kanban_move_ticket_to_todo", "list_tickets_by_column", "list_available_repos",
   "kanban_move_ticket_to_other_repo_todo"}

\* The tools of every turn.
LocalTools == {"list_directory", "read_file", "search_files", "evaluate_ticket_ready"}

\* The keys of the tools object.
ToolSet(cfg) == LocalTools \cup (IF hasSupabase(cfg) THEN StoreTools ELSE {})

\* The prompt texts of the model: with and without a secret in the
\* conversation.
ContextPacks == {<<"text">>, <<"text", OPENAI_KEY, JWT, SUPABASE_URL>>}

\* The body of the k-th request of a turn.
RequestBody(k, pack) == [n |-> k, input |-> pack]

\* A fetch wrapper that keeps the latest request body.
CaptureLatest(captured, body) == body

\* if (init?.body && !capturedRequest) capturedRequest = JSON.parse(init.body)
Capture(captured, body) == IF captured = NoRequest THEN body ELSE captured

\* capturedRequest ? redact(capturedRequest) : {}
OutboundRequest(captured) ==
  IF captured # NoRequest THEN redact(captured) ELSE NoRequest

\* Outputs of the ticket tools and of list_tickets_by_column: a rejection, a
\* success, and the failures of a wrong column, a ticket not found, a store
\* error and a caught exception.
TicketOutputs ==
  {Rejected("create_ticket", Placeholders(BodyPlaceholder)),
   CreateResult(RepoA, 1, 1, 1),
   Failure("kanban_move_ticket_to_todo", "not in Unassigned"),
   Failure("kanban_move_ticket_to_todo", "notfound"),
   Failure("update_ticket_body", "fetch"),
   Failure("create_ticket", "exception"),
   [NoRes EXCEPT !.tool = "kanban_move_ticket_to_todo", !.success = TRUE,
                 !.fromColumn = COL_UNASSIGNED],
   [NoRes EXCEPT !.tool = "update_ticket_body", !.success = TRUE, !.ready = TRUE],
   [NoRes EXCEPT !.tool = "kanban_move_ticket_to_other_repo_todo", !.success = TRUE,
                 !.repo = RepoB, !.fromColumn = COL_QA],
   [NoRes EXCEPT !.tool = "list_tickets_by_column", !.success = TRUE]}

\* The output {content} of read_file.
ReadOutput == [NoRes EXCEPT !.tool = "read_file", !.content = <<"text">>]

\* The tokens that the redaction patterns match.
Secrets == {OPENAI_KEY, JWT, SUPABASE_URL}

\* The output {content} of read_file for a file that holds a key (.env).
SecretReadOutput ==
  [NoRes EXCEPT !.tool = "read_file", !.content = <<"text", OPENAI_KEY>>]

\* The outputs that the bound of the model counts.
CountedOutputs == TicketOutputs \cup {SecretReadOutput}

\* result.text of generateText: empty, or some text of the model.
Texts == {"", "text"}

TextReply == [kind |-> "text", about |-> NoRes]

\* The predicates of the fallback chain on a Tool Call Record entry.
Matches(c, name, kind) ==
  /\ c.name = name
  /\ IF kind = "rejected"
     THEN ~c.output.success /\ c.output.detected # <<>>
     ELSE c.output.success

\* toolCalls.find(...): the index of the first entry that matches, or 0.
Find(calls, name, kind) ==
  LET hit == {i \in 1..Len(calls) : Matches(calls[i], name, kind)}
  IN IF hit = {} THEN 0 ELSE CHOOSE i \in hit : \A j \in hit : i <= j

\* The nested conditionals of the fallback reply, in their order.
FallbackChain ==
  << <<"create_ticket", "rejected">>,
     <<"update_ticket_body", "rejected">>,
     <<"create_ticket", "success">>,
     <<"kanban_move_ticket_to_todo", "success">>,
     <<"update_ticket_body", "success">>,
     <<"sync_tickets", "success">>,
     <<"list_tickets_by_column", "success">>,
     <<"list_available_repos", "success">>,
     <<"kanban_move_ticket_to_other_repo_todo", "success">> >>

\* The reply synthesized for an empty model text: the sentence of the first
\* branch of the chain whose find(...) has a hit, about the output found.
FallbackReply(calls) ==
  LET hits == {k \in 1..Len(FallbackChain) :
                 Find(calls, FallbackChain[k][1], FallbackChain[k][2]) # 0}
  IN IF hits = {} THEN NoReply
     ELSE LET k == CHOOSE h \in hits : \A j \in hits : h <= j
          IN [kind |-> FallbackChain[k][2],
              about |-> calls[Find(calls, FallbackChain[k][1], FallbackChain[k][2])].output]

\* A context-pack failure that still carries a reply.
ContextPackFailureWithReply(calls, captured) ==
  [reply |-> TextReply, toolCalls |-> <<>>, outboundRequest |-> NoRequest,
   error |-> "context error", errorPhase |-> "context-pack"]

\* The result of a turn whose buildContextPack threw.
ContextPackFailure(calls, captured) ==
  [reply |-> NoReply, toolCalls |-> <<>>, outboundRequest |-> NoRequest,
   error |-> "context error", errorPhase |-> "context-pack"]

\* The result of a turn whose generateText threw err.
CompletionFailure(calls, captured, err) ==
  [reply |-> NoReply, toolCalls |-> calls, outboundRequest |-> OutboundRequest(captured),
   error |-> err, errorPhase |-> "openai"]

\* The result of a turn whose generateText returned text.
TurnResult(text, calls, captured) ==
  [reply |-> IF text = "" THEN FallbackReply(calls) ELSE TextReply,
   toolCalls |-> calls, outboundRequest |-> OutboundRequest(captured),
   error |-> "", errorPhase |-> ""]

\* buildContextPack throws.
BuildContextFails ==
  /\ phase = "building-context"
  /\ phase' = "failed"
  /\ result' = ContextPackFailure(toolCalls, capturedRequest)
  /\ UNCHANGED <<steps, toolCalls, capturedRequest, contextPack>>
  /\ UNCHANGED <<ticketVars, config, tools, localVars, pureVars, checkVars>>

\* buildContextPack returns and generateText sends its first request.
BuildContext ==
  /\ phase = "building-context"
  /\ \E pack \in ContextPacks :
       /\ contextPack' = pack
       /\ capturedRequest' = Capture(capturedRequest, RequestBody(1, pack))
  /\ tools' = ToolSet(config)
  /\ steps' = 1
  /\ phase' = "awaiting-completion"
  /\ UNCHANGED <<toolCalls, result>>
  /\ UNCHANGED <<ticketVars, config, localVars, pureVars, checkVars>>

\* The response asks for a tool.
CompletionCallsTool ==
  /\ phase = "awaiting-completion"
  /\ phase' = "executing-tool"
  /\ UNCHANGED <<steps, toolCalls, capturedRequest, contextPack, result>>
  /\ UNCHANGED <<ticketVars, config, tools, localVars, pureVars, checkVars>>

\* The response is the final one and carries result.text.
CompletionReturns ==
  /\ phase = "awaiting-completion"
  /\ \E text \in Texts : result' = TurnResult(text, toolCalls, capturedRequest)
  /\ phase' = "done"
  /\ UNCHANGED <<steps, toolCalls, capturedRequest, contextPack>>
  /\ UNCHANGED <<ticketVars, config, tools, localVars, pureVars, checkVars>>

\* The request fails (network or endpoint error): generateText throws.
CompletionFails ==
  /\ phase = "awaiting-completion"
  /\ phase' = "failed"
  /\ result' = CompletionFailure(toolCalls, capturedRequest, "endpoint error")
  /\ UNCHANGED <<steps, toolCalls, capturedRequest, contextPack>>
  /\ UNCHANGED <<ticketVars, config, tools, localVars, pureVars, checkVars>>

\* ExecuteTool with a record for the outputs of success only.
ExecuteToolRecordsSuccess ==
  /\ phase = "executing-tool"
  /\ \E out \in CountedOutputs \cup {ReadOutput} :
       /\ out.tool \in tools
       /\ out \in CountedOutputs
          => Cardinality({i \in 1..Len(toolCalls) : toolCalls[i].output \in CountedOutputs})
               < MaxMutations
       /\ toolCalls' = IF out.success
                       THEN Append(toolCalls, [name |-> out.tool, output |-> out])
                       ELSE toolCalls
  /\ IF steps < MAX_TOOL_ITERATIONS
     THEN /\ steps' = steps + 1
          /\ capturedRequest' = Capture(capturedRequest, RequestBody(steps + 1, contextPack))
          /\ phase' = "awaiting-completion"
          /\ UNCHANGED result
     ELSE /\ \E text \in Texts : result' = TurnResult(text, toolCalls', capturedRequest)
          /\ phase' = "done"
          /\ UNCHANGED <<steps, capturedRequest>>
  /\ UNCHANGED contextPack
  /\ UNCHANGED <<ticketVars, config, tools, localVars, pureVars, checkVars>>

\* The tool returns and its call is recorded.  generateText goes on with the
\* next request while fewer than maxSteps requests were sent, and returns
\* after the tools of its last step.
ExecuteTool ==
  /\ phase = "executing-tool"
  /\ \E out \in CountedOutputs \cup {ReadOutput} :
       /\ out.tool \in tools
       /\ out \in CountedOutputs
          => Cardinality({i \in 1..Len(toolCalls) : toolCalls[i].output \in CountedOutputs})
               < MaxMutations
       /\ toolCalls' = Append(toolCalls, [name |-> out.tool, output |-> out])
  /\ IF steps < MAX_TOOL_ITERATIONS
     THEN /\ steps' = steps + 1
          /\ capturedRequest' = Capture(capturedRequest, RequestBody(steps + 1, contextPack))
          /\ phase' = "awaiting-completion"
          /\ UNCHANGED result
     ELSE /\ \E text \in Texts : result' = TurnResult(text, toolCalls', capturedRequest)
          /\ phase' = "done"
          /\ UNCHANGED <<steps, capturedRequest>>
  /\ UNCHANGED contextPack
  /\ UNCHANGED <<ticketVars, config, tools, localVars, pureVars, checkVars>>

\* The tool throws (read_file with a githubReadFile callback that throws):
\* nothing is recorded and generateText throws.
ToolThrows ==
  /\ phase = "executing-tool"
  /\ phase' = "failed"
  /\ result' = CompletionFailure(toolCalls, capturedRequest, "callback error")
  /\ UNCHANGED <<steps, toolCalls, capturedRequest, contextPack>>
  /\ UNCHANGED <<ticketVars, config, tools, localVars, pureVars, checkVars>>

NextRunner ==
  \/ BuildContextFails
  \/ BuildContext
  \/ CompletionCallsTool
  \/ CompletionReturns
  \/ CompletionFails
  \/ ExecuteTool
  \/ ToolThrows

InitRunner == Init /\ store = <<>>

SpecRunner == InitRunner /\ [][NextRunner]_vars

\* ------------------------------------------------------------------------
\* The local tools: list_directory, read_file, search_files
\* ------------------------------------------------------------------------
\* A path is a string: a sequence of characters.  The file system is a fixed
\* tree; every call of sandboxPath and of fs is written to fsLog.

MAX_FILE_LINES == 500

DEFAULT_MAX_LINES == 500

\* matches.slice(0, 100)
MAX_MATCHES == 100

\* lines[i].trim().slice(0, 200)
MAX_TEXT == 200

\* The name segments of a path: its parts between '/', empty parts dropped.
RECURSIVE Segments(_, _, _)
Segments(s, i, cur) ==
  IF i > Len(s) THEN (IF cur = <<>> THEN <<>> ELSE <<cur>>)
  ELSE IF s[i] = "/"
  THEN (IF cur = <<>> THEN <<>> ELSE <<cur>>) \o Segments(s, i + 1, <<>>)
  ELSE Segments(s, i + 1, Append(cur, s[i]))

\* Resolution of '.' and '..' segments of an absolute path; '..' at the top
\* stays at the top.
RECURSIVE NormalizeSegments(_, _)
NormalizeSegments(segs, acc) ==
  IF segs = <<>> THEN acc
  ELSE LET h == Head(segs)
       IN NormalizeSegments(Tail(segs),
            IF h = <<".">> THEN acc
            ELSE IF h = <<".", ".">>
            THEN (IF acc = <<>> THEN <<>> ELSE SubSeq(acc, 1, Len(acc) - 1))
            ELSE Append(acc, h))

\* segs.join(sep)
RECURSIVE JoinSegments(_, _)
JoinSegments(segs, sep) ==
  IF segs = <<>> THEN <<>>
  ELSE IF Len(segs) = 1 THEN segs[1]
  ELSE segs[1] \o sep \o JoinSegments(Tail(segs), sep)

\* path.isAbsolute (POSIX)
isAbsolute(p) == p # <<>> /\ p[1] = "/"

\* The segments of path.resolve(from, to), from absolute.
ResolvedSegments(from, to) ==
  IF isAbsolute(to) THEN NormalizeSegments(Segments(to, 1, <<>>), <<>>)
  ELSE NormalizeSegments(Segments(from, 1, <<>>) \o Segments(to, 1, <<>>), <<>>)

\* path.resolve(from, to)
resolve(from, to) == <<"/">> \o JoinSegments(ResolvedSegments(from, to), <<"/">>)

\* Length of the longest common prefix of two segment lists.
RECURSIVE CommonPrefix(_, _)
CommonPrefix(a, b) ==
  IF a = <<>> \/ b = <<>> \/ Head(a) # Head(b) THEN 0
  ELSE 1 + CommonPrefix(Tail(a), Tail(b))

\* path.relative(from, to) of two absolute paths: one '..' for each segment
\* of from below the common prefix, then the rest of to.
relative(from, to) ==
  LET f == ResolvedSegments(<<"/">>, from)
      t == ResolvedSegments(<<"/">>, to)
      k == CommonPrefix(f, t)
  IN JoinSegments([i \in 1..(Len(f) - k) |-> <<".", ".">>] \o SubSeq(t, k + 1, Len(t)),
                  <<"/">>)

\* path.join(dir, name) of an absolute directory and a name.
join(dir, name) == resolve(dir, name)

\* value.startsWith(prefix)
startsWith(value, prefix) ==
  Len(value) >= Len(prefix) /\ SubSeq(value, 1, Len(prefix)) = prefix

\* null, or the absolute path that sandboxPath returns.
NoPath == [ok |-> FALSE, path |-> <<>>]

sandboxPath(repoRoot, relativeOrAbsolute) ==
  LET absolute == resolve(repoRoot, IF relativeOrAbsolute = <<>> THEN <<".">>
                                    ELSE relativeOrAbsolute)
      repoResolved == resolve(repoRoot, <<".">>)
      rel == relative(repoResolved, absolute)
  IN IF startsWith(rel, <<".", ".">>) \/ isAbsolute(rel)
     THEN NoPath
     ELSE [ok |-> TRUE, path |-> absolute]

\* ctx.repoRoot
RepoRoot == <<"/", "r">>

NODE_MODULES == <<"n", "o", "d", "e", "_", "m", "o", "d", "u", "l", "e", "s">>

DOT_GIT == <<".", "g", "i", "t">>

\* Lines of files: a line is a sequence of words.
LineTodo == <<"TODO", "x">>

LinePlain == <<"x">>

\* A directory entry (fs.Dirent): a name and a kind.
Dirent(name, kind) == [name |-> name, kind |-> kind]

\* The directories of the file system and their entries, in readdir order.
\* /r is the repo root; /e and /r2 lie outside.
FsDirs ==
  { [path |-> <<"/">>,
     entries |-> <<Dirent(<<"e">>, "dir"), Dirent(<<"r">>, "dir"), Dirent(<<"r", "2">>, "dir")>>],
    [path |-> <<"/", "e">>, entries |-> <<Dirent(<<"p">>, "file")>>],
    [path |-> <<"/", "r", "2">>, entries |-> <<Dirent(<<"s", ".", "m", "d">>, "file")>>],
    [path |-> RepoRoot,
     entries |-> <<Dirent(<<".", ".", "c">>, "dir"), Dirent(DOT_GIT, "dir"),
                   Dirent(<<"R", ".", "m", "d">>, "file"), Dirent(<<"d">>, "dir"),
                   Dirent(<<"d", ".", "m", "d">>, "file"), Dirent(NODE_MODULES, "dir")>>],
    [path |-> RepoRoot \o <<"/", ".", ".", "c">>,
     entries |-> <<Dirent(<<"x", ".", "m", "d">>, "file")>>],
    [path |-> RepoRoot \o <<"/">> \o DOT_GIT,
     entries |-> <<Dirent(<<"h", ".", "m", "d">>, "file")>>],
    [path |-> RepoRoot \o <<"/", "d">>,
     entries |-> <<Dirent(<<"a", ".", "m", "d">>, "file"), Dirent(<<"b", ".", "t", "s">>, "file"),
                   Dirent(NODE_MODULES, "dir")>>],
    [path |-> RepoRoot \o <<"/", "d", "/">> \o NODE_MODULES,
     entries |-> <<Dirent(<<"n", ".", "m", "d">>, "file")>>],
    [path |-> RepoRoot \o <<"/">> \o NODE_MODULES,
     entries |-> <<Dirent(<<"m", ".", "m", "d">>, "file")>>] }

\* The content of a file, as lines (content.split('\n')).
FileLines(path) ==
  IF path = RepoRoot \o <<"/", "d", "/", "a", ".", "m", "d">>
  THEN <<LinePlain, LineTodo, LinePlain, LineTodo>>
  ELSE IF path = RepoRoot \o <<"/", "d", "/", "b", ".", "t", "s">>
  THEN [i \in 1..(MAX_MATCHES + 1) |-> LineTodo]
  ELSE <<LinePlain, LineTodo>>

IsDir(path) == \E d \in FsDirs : d.path = path

DirEntries(path) == (CHOOSE d \in FsDirs : d.path = path).entries

IsFile(path) ==
  \E d \in FsDirs : \E i \in 1..Len(d.entries) :
     d.entries[i].kind = "file" /\ join(d.path, d.entries[i].name) = path

\* fs.readdir(path): the entries, or the error it throws.
readdir(path) ==
  IF IsDir(path) THEN [error |-> "", entries |-> DirEntries(path)]
  ELSE IF IsFile(path) THEN [error |-> "ENOTDIR", entries |-> <<>>]
  ELSE [error |-> "ENOENT", entries |-> <<>>]

\* fs.readFile(path, 'utf8'), split into lines, or the error it throws.
readFileLines(path) ==
  IF IsFile(path) THEN [error |-> "", lines |-> FileLines(path)]
  ELSE IF IsDir(path) THEN [error |-> "EISDIR", lines |-> <<>>]
  ELSE [error |-> "ENOENT", lines |-> <<>>]

\* The paths that the model hands to list_directory and read_file.
InputPaths ==
  { <<>>,
    <<".">>,
    <<"d">>,
    <<"d", "/", "a", ".", "m", "d">>,
    <<"d", "/", ".", ".">>,
    <<"d", "/", "m", "i", "s", "s">>,
    <<".", ".">>,
    <<".", ".", "/", "e", "/", "p">>,
    <<"d", "/", ".", ".", "/", ".", ".", "/", "e">>,
    <<".", ".", "/", "r", "2", "/", "s", ".", "m", "d">>,
    <<"/", "e", "/", "p">>,
    <<"/", "r", "/", "d">>,
    <<"/", "r", "2">>,
    <<".", ".", "c">>,
    <<".", ".", "c", "/", "x", ".", "m", "d">> }

\* input.maxLines: absent (0), or a number.
InputMaxLines == {0, 1}

\* An entry of fsLog.
LogEntry(fn, arg, ok) == [fn |-> fn, arg |-> arg, ok |-> ok]

ErrorOut(message) == [NoOut EXCEPT !.kind = "error", !.error = message]

\* An output that stands for an exception leaving the tool.
ThrownOut(message) == [NoOut EXCEPT !.kind = "thrown", !.error = message]

\* list_directory and read_file: sandboxPath(ctx.repoRoot, input.path), and
\* the error output when it returns null.
LocalToolSandbox(tool) ==
  /\ \E path \in InputPaths, maxLines \in InputMaxLines :
       LET safePath == sandboxPath(RepoRoot, path)
       IN /\ tool = "list_directory" => maxLines = 0
          /\ fsLog' = Append(fsLog, LogEntry("sandboxPath", path, safePath.ok))
          /\ IF ~safePath.ok
             THEN /\ call' = [NoCallLocal EXCEPT !.tool = tool, !.path = path,
                                                !.maxLines = maxLines, !.pc = "done"]
                  /\ toolOut' = ErrorOut("Path escapes repo sandbox")
             ELSE /\ call' = [NoCallLocal EXCEPT !.tool = tool, !.path = path,
                                                !.maxLines = maxLines, !.pc = "fs",
                                                !.safe = safePath.path]
                  /\ UNCHANGED toolOut
  /\ UNCHANGED <<ticketVars, runnerVars, pureVars, checkVars>>

ListDirectorySandbox ==
  /\ call = NoCallLocal
  /\ LocalToolSandbox("list_directory")

\* A list_directory without try/catch around fs.readdir.
ListDirectoryOutputUncaught(r) ==
  IF r.error = "" THEN [NoOut EXCEPT !.kind = "entries", !.entries = r.entries]
  ELSE ThrownOut(r.error)

\* try { entries = await fs.readdir(safePath); return {entries} }
\* catch (err) { return {error: err.message} }
ListDirectoryOutput(r) ==
  IF r.error = "" THEN [NoOut EXCEPT !.kind = "entries", !.entries = r.entries]
  ELSE ErrorOut(r.error)

ListDirectoryRead ==
  /\ call.tool = "list_directory" /\ call.pc = "fs"
  /\ fsLog' = Append(fsLog, LogEntry("readdir", call.safe, readdir(call.safe).error = ""))
  /\ toolOut' = ListDirectoryOutput(readdir(call.safe))
  /\ call' = [call EXCEPT !.pc = "done"]
  /\ UNCHANGED <<ticketVars, runnerVars, pureVars, checkVars>>

ReadFileSandbox ==
  /\ call = NoCallLocal
  /\ LocalToolSandbox("read_file")

\* The output of read_file for what fs.readFile gave.
ReadFileOutput(r, inputMaxLines) ==
  LET maxLines == Min(IF inputMaxLines = 0 THEN DEFAULT_MAX_LINES ELSE inputMaxLines,
                      MAX_FILE_LINES)
      truncated == Len(r.lines) > maxLines
  IN IF r.error # "" THEN ErrorOut(r.error)
     ELSE [NoOut EXCEPT !.kind = "content",
                        !.content = IF truncated THEN SubSeq(r.lines, 1, maxLines)
                                    ELSE r.lines,
                        !.more = IF truncated THEN Len(r.lines) - maxLines ELSE 0]

ReadFileRead ==
  /\ call.tool = "read_file" /\ call.pc = "fs"
  /\ fsLog' = Append(fsLog, LogEntry("readFile", call.safe, readFileLines(call.safe).error = ""))
  /\ toolOut' = ReadFileOutput(readFileLines(call.safe), call.maxLines)
  /\ call' = [call EXCEPT !.pc = "done"]
  /\ UNCHANGED <<ticketVars, runnerVars, pureVars, checkVars>>

\* ---- search_files ----

\* What '**' becomes between the two replacements of '*'.
STARSTAR == "<<<STARSTAR>>>"

\* value.replace(/c/g, by) for a single character c.
RECURSIVE ReplaceChar(_, _, _)
ReplaceChar(value, c, by) ==
  IF value = <<>> THEN <<>>
  ELSE (IF Head(value) = c THEN by ELSE <<Head(value)>>) \o ReplaceChar(Tail(value), c, by)

\* value.replace(/\*\*/g, by): left to right, without overlap.
RECURSIVE ReplaceStarStar(_, _)
ReplaceStarStar(value, by) ==
  IF value = <<>> THEN <<>>
  ELSE IF Len(value) >= 2 /\ value[1] = "*" /\ value[2] = "*"
  THEN by \o ReplaceStarStar(SubSeq(value, 3, Len(value)), by)
  ELSE <<Head(value)>> \o ReplaceStarStar(Tail(value), by)

\* The source of the regular expression that matchGlob builds.
GlobRegexSource(glob) ==
  <<"^">>
  \o ReplaceChar(
       ReplaceChar(
         ReplaceStarStar(ReplaceChar(glob, ".", <<"\\", ".">>), <<STARSTAR>>),
         "*", <<"[", "^", "/", "]", "*">>),
       STARSTAR, <<".", "*">>)
  \o <<"$">>

\* The regular expression of a source, as a sequence of terms: a literal
\* character, an optional literal character (c?), a run of non-separator
\* characters ([^/]*), any run (.*), and the two anchors.  The sequence ends
\* with an "invalid" term when new RegExp(source) throws (here: a group that
\* is not closed, or a '?' with nothing to repeat).
RECURSIVE ParseRegex(_)
ParseRegex(src) ==
  LET term(t, c, n) ==
        IF Len(src) > n /\ src[n + 1] = "?"
        THEN <<[t |-> IF t = "lit" THEN "opt" ELSE t, c |-> c]>>
               \o ParseRegex(SubSeq(src, n + 2, Len(src)))
        ELSE <<[t |-> t, c |-> c]>> \o ParseRegex(SubSeq(src, n + 1, Len(src)))
      Invalid == <<[t |-> "invalid", c |-> ""]>>
  IN IF src = <<>> THEN <<>>
     ELSE IF src[1] = "^" \/ src[1] = "$"
     THEN IF Len(src) > 1 /\ src[2] = "?" THEN Invalid
          ELSE <<[t |-> src[1], c |-> ""]>> \o ParseRegex(Tail(src))
     ELSE IF src[1] \in {"(", "?"} THEN Invalid
     ELSE IF src[1] = "\\" THEN term("lit", src[2], 2)
     ELSE IF Len(src) >= 5 /\ SubSeq(src, 1, 5) = <<"[", "^", "/", "]", "*">>
     THEN term("seg", "", 5)
     ELSE IF Len(src) >= 2 /\ src[1] = "." /\ src[2] = "*" THEN term("any", "", 2)
     ELSE term("lit", src[1], 1)

IsValidRegex(terms) == \A i \in 1..Len(terms) : terms[i].t # "invalid"

\* regex.test(value) for an anchored sequence of terms: terms from i on
\* match value from j on, up to its end.
RECURSIVE MatchFrom(_, _, _, _)
MatchFrom(terms, i, value, j) ==
  IF i > Len(terms) THEN TRUE
  ELSE LET t == terms[i]
       IN CASE t.t = "^" -> j = 1 /\ MatchFrom(terms, i + 1, value, j)
            [] t.t = "$" -> j = Len(value) + 1 /\ MatchFrom(terms, i + 1, value, j)
            [] t.t = "lit" -> /\ j <= Len(value)
                              /\ value[j] = t.c
                              /\ MatchFrom(terms, i + 1, value, j + 1)
            [] t.t = "opt" -> \/ MatchFrom(terms, i + 1, value, j)
                              \/ /\ j <= Len(value)
                                 /\ value[j] = t.c
                                 /\ MatchFrom(terms, i + 1, value, j + 1)
            [] t.t = "seg" -> \E k \in j..(Len(value) + 1) :
                                /\ \A m \in j..(k - 1) : value[m] # "/"
                                /\ MatchFrom(terms, i + 1, value, k)
            [] t.t = "any" -> \E k \in j..(Len(value) + 1) :
                                MatchFrom(terms, i + 1, value, k)
            [] OTHER -> FALSE

\* matchGlob(relative, glob): the result, or that new RegExp threw.
matchGlob(rel, glob) ==
  LET terms == ParseRegex(GlobRegexSource(glob))
  IN [threw |-> ~IsValidRegex(terms),
      matches |-> IsValidRegex(terms) /\ MatchFrom(terms, 1, rel, 1)]

\* input.pattern: a word, a word that no line holds, and a source with a
\* group that is not closed.
Patterns == {"TODO", "none", "("}

\* new RegExp(input.pattern) does not throw.
PatternCompiles(pattern) == pattern # "("

\* regex.test(line) for a pattern that is a word.
PatternTest(pattern, line) == \E i \in 1..Len(line) : line[i] = pattern

\* input.glob
Globs ==
  { Undefined,
    Str(<<>>),
    Str(<<"*", "*", "/", "*">>),
    Str(<<"*", "*", "/", "*", ".", "m", "d">>),
    Str(<<"*", ".", "m", "d">>),
    Str(<<"d", "/", "*">>),
    Str(<<"d", "/", "?", ".", "m", "d">>),
    Str(<<"(">>) }

DEFAULT_GLOB == <<"*", "*", "/", "*">>

\* input.glob ?? '**/*', then globPattern || '**/*'
GlobPattern(glob) == IF ~glob.defined \/ glob.value = <<>> THEN DEFAULT_GLOB ELSE glob.value

\* A directory still to be searched, or a file still to be read.
Item(kind, path) == [kind |-> kind, path |-> path]

\* The for loop of searchDir over the entries of safe, up to the entry at
\* which matchGlob throws: the directories to descend into and the files to
\* read, in order.
RECURSIVE Children(_, _, _)
Children(safe, entries, glob) ==
  IF entries = <<>> THEN <<>>
  ELSE LET e == Head(entries)
           full == join(safe, e.name)
           rel == relative(RepoRoot, full)
       IN IF e.kind = "dir"
          THEN (IF e.name # NODE_MODULES /\ e.name # DOT_GIT
                THEN <<Item("dir", full)>> ELSE <<>>)
               \o Children(safe, Tail(entries), glob)
          ELSE IF matchGlob(rel, glob).threw THEN <<>>
          ELSE (IF matchGlob(rel, glob).matches THEN <<Item("file", full)>> ELSE <<>>)
               \o Children(safe, Tail(entries), glob)

\* The matches of the lines of one file.
RECURSIVE FileMatches(_, _, _, _)
FileMatches(rel, lines, pattern, i) ==
  IF i > Len(lines) THEN <<>>
  ELSE (IF PatternTest(pattern, lines[i])
        THEN <<[path |-> rel, line |-> i,
                text |-> SubSeq(lines[i], 1, Min(Len(lines[i]), MAX_TEXT))]>>
        ELSE <<>>)
       \o FileMatches(rel, lines, pattern, i + 1)

\* searchFiles up to the call of searchDir(startDir).
SearchFilesStart ==
  /\ call = NoCallLocal
  /\ \E pattern \in Patterns, glob \in Globs :
       LET searchRootRaw == sandboxPath(RepoRoot, <<".">>)
           started == [NoCallLocal EXCEPT !.tool = "search_files", !.pattern = pattern,
                                          !.glob = glob]
       IN /\ fsLog' = Append(fsLog, LogEntry("sandboxPath", <<".">>, searchRootRaw.ok))
          /\ IF ~searchRootRaw.ok
             THEN /\ call' = [started EXCEPT !.pc = "done"]
                  /\ toolOut' = ErrorOut("Invalid repo root")
             ELSE IF ~PatternCompiles(pattern)
             THEN /\ call' = [started EXCEPT !.pc = "done"]
                  /\ toolOut' = ErrorOut("Invalid regex pattern")
             ELSE /\ call' = [started EXCEPT !.pc = "search", !.safe = searchRootRaw.path,
                                             !.stack = <<Item("dir", searchRootRaw.path)>>]
                  /\ UNCHANGED toolOut
  /\ UNCHANGED <<ticketVars, runnerVars, pureVars, checkVars>>

\* searchDir(dir): sandboxPath, fs.readdir, and the loop over the entries.
SearchDir ==
  /\ call.tool = "search_files" /\ call.pc = "search"
  /\ call.stack # <<>> /\ Head(call.stack).kind = "dir"
  /\ LET dir == Head(call.stack).path
         safe == sandboxPath(RepoRoot, dir)
         r == readdir(safe.path)
     IN IF ~safe.ok
        THEN /\ fsLog' = Append(fsLog, LogEntry("sandboxPath", dir, FALSE))
             /\ call' = [call EXCEPT !.stack = Tail(@)]
        ELSE /\ fsLog' = fsLog \o <<LogEntry("sandboxPath", dir, TRUE),
                                    LogEntry("readdir", safe.path, r.error = "")>>
             /\ call' = [call EXCEPT !.stack =
                           (IF r.error = "" THEN Children(safe.path, r.entries, GlobPattern(call.glob))
                            ELSE <<>>) \o Tail(@)]
  /\ UNCHANGED toolOut
  /\ UNCHANGED <<ticketVars, runnerVars, pureVars, checkVars>>

\* fs.readFile(full) of a file that matched the glob, and its matches.
SearchFile ==
  /\ call.tool = "search_files" /\ call.pc = "search"
  /\ call.stack # <<>> /\ Head(call.stack).kind = "file"
  /\ LET full == Head(call.stack).path
         rel == relative(call.safe, full)
         r == readFileLines(full)
     IN /\ fsLog' = Append(fsLog, LogEntry("readFile", full, r.error = ""))
        /\ call' = [call EXCEPT !.stack = Tail(@),
                                !.matches = @ \o (IF r.error = ""
                                                  THEN FileMatches(rel, r.lines, call.pattern, 1)
                                                  ELSE <<>>)]
  /\ UNCHANGED toolOut
  /\ UNCHANGED <<ticketVars, runnerVars, pureVars, checkVars>>

\* return { matches: matches.slice(0, 100) }
SearchOutput(matches) ==
  [NoOut EXCEPT !.kind = "matches",
                !.matches = SubSeq(matches, 1, Min(Len(matches), MAX_MATCHES))]

SearchFilesReturn ==
  /\ call.tool = "search_files" /\ call.pc = "search"
  /\ call.stack = <<>>
  /\ toolOut' = SearchOutput(call.matches)
  /\ call' = [call EXCEPT !.pc = "done"]
  /\ UNCHANGED fsLog
  /\ UNCHANGED <<ticketVars, runnerVars, pureVars, checkVars>>

NextLocal ==
  \/ ListDirectorySandbox
  \/ ListDirectoryRead
  \/ ReadFileSandbox
  \/ ReadFileRead
  \/ SearchFilesStart
  \/ SearchDir
  \/ SearchFile
  \/ SearchFilesReturn

\* The turn's configuration does not matter to the local tools.
InitLocal ==
  /\ Init
  /\ store = <<>>
  /\ config = [supabaseUrl |-> Undefined, supabaseAnonKey |-> Undefined]

SpecLocal == InitLocal /\ [][NextLocal]_vars

\* ------------------------------------------------------------------------
\* fetch_ticket_content
\* ------------------------------------------------------------------------
\* Ticket references passed to fetch_ticket_content: display identifiers and
\* legacy ids of stored tickets, and 0099.
FetchRefs(st) ==
  ({st[i].did : i \in 1..Len(st)} \cup {st[i].id : i \in 1..Len(st)}
     \cup {<<"0", "0", "9", "9">>}) \ {<<>>}

\* The model calls fetch_ticket_content{ticket_id}.
CallFetchTicketContent(p) ==
  \E project \in Projects, ref \in FetchRefs(store) :
    Invoke(p, [NoOp EXCEPT !.tool = "fetch_ticket_content", !.project = project,
                 !.ref = ref], "f_start", 0)

\* .maybeSingle() of a query: the store fails (f), or several rows match,
\* or it yields the row or none.
MaybeSingle(rows, f) ==
  IF f \/ Cardinality(rows) > 1 THEN [error |-> TRUE, row |-> 0]
  ELSE IF rows = {} THEN [error |-> FALSE, row |-> 0]
  ELSE [error |-> FALSE, row |-> CHOOSE r \in rows : TRUE]

\* The output of fetch_ticket_content for a row.
Fetched(st, row) ==
  [NoRes EXCEPT !.tool = "fetch_ticket_content", !.success = TRUE, !.pk = row,
                !.did = st[row].did, !.num = st[row].num, !.repo = st[row].repo]

\* The output when no branch returned a row: `Ticket ... not found in
\* Supabase`, whatever the query answered.
FetchMiss(q) == Failure("fetch_ticket_content", "notfound")

\* The whole handler: reference parsing; the query by repository and number
\* when a project is connected, with the legacy query by id when the store
\* lacks the columns; the query by id when none is connected.
FetchQuery(p) ==
  /\ pc[p] = "f_start"
  /\ LET ticketNumber == parseTicketNumber(op[p].ref)
         normalizedId == LegacyId(ticketNumber)
     IN IF ticketNumber = 0
        THEN Finish(p, Failure("fetch_ticket_content", "parse")) /\ NoCall
        ELSE \E f \in BOOLEAN :
               LET scoped == op[p].project # NoProject /\ ~UnknownColumns
                   q == MaybeSingle(IF scoped
                                    THEN ByRepoNum(store, op[p].project, ticketNumber)
                                    ELSE ById(store, normalizedId), f)
               IN /\ FaultOk(f)
                  /\ IF op[p].project # NoProject
                     THEN CalledWithFallback(p, f) ELSE Called(p, f)
                  /\ UNCHANGED <<store, ops>>
                  /\ IF ~q.error /\ q.row # 0
                     THEN Finish(p, Fetched(store, q.row))
                     ELSE Finish(p, FetchMiss(q))

NextRead ==
  \E p \in Procs :
    \/ CallFetchTicketContent(p)
    \/ FetchQuery(p)

InitRead == Init \/ InitLegacy

SpecRead == InitRead /\ [][NextRead]_vars

\* ------------------------------------------------------------------------
\* redact
\* ------------------------------------------------------------------------
\* Values as JSON has them.  A string is a sequence of tokens, as in
\* redactString; an object is the sequence of its entries, in the order of
\* Object.entries.
JString(tokens) == [type |-> "string", tokens |-> tokens]

JNumber(n) == [type |-> "number", n |-> n]

JBoolean(b) == [type |-> "boolean", b |-> b]

JNull == [type |-> "null"]

JArray(items) == [type |-> "array", items |-> items]

JObject(entries) == [type |-> "object", entries |-> entries]

Entry(k, v) == [k |-> k, v |-> v]

\* The lower-case form of a character.
LowerChar(c) ==
  CASE c = "T" -> "t" [] c = "O" -> "o" [] c = "K" -> "k" [] c = "E" -> "e"
    [] c = "N" -> "n" [] c = "A" -> "a" [] c = "P" -> "p" [] c = "I" -> "i"
    [] c = "Y" -> "y" [] c = "S" -> "s"
    [] OTHER -> c

toLowerCase(key) == [i \in 1..Len(key) |-> LowerChar(key[i])]

\* The strings of [_-]?
OptSeparator == {<<>>, <<"_">>, <<"-">>}

Chars(word) ==
  CASE word = "api" -> <<"a", "p", "i">>
    [] word = "key" -> <<"k", "e", "y">>
    [] word = "apikey" -> <<"a", "p", "i", "k", "e", "y">>
    [] word = "authorization" ->
         <<"a", "u", "t", "h", "o", "r", "i", "z", "a", "t", "i", "o", "n">>
    [] word = "secret" -> <<"s", "e", "c", "r", "e", "t">>
    [] word = "password" -> <<"p", "a", "s", "s", "w", "o", "r", "d">>
    [] word = "token" -> <<"t", "o", "k", "e", "n">>
    [] word = "tokens" -> <<"t", "o", "k", "e", "n", "s">>
    [] word = "Token" -> <<"T", "o", "k", "e", "n">>
    [] word = "API_KEY" -> <<"A", "P", "I", "_", "K", "E", "Y">>
    [] word = "name" -> <<"n", "a", "m", "e">>
    [] word = "supabase" -> <<"s", "u", "p", "a", "b", "a", "s", "e">>
    [] word = "anon" -> <<"a", "n", "o", "n">>
    [] word = "service" -> <<"s", "e", "r", "v", "i", "c", "e">>

\* The language of SENSITIVE_KEYS between ^ and $, in lower case.
SENSITIVE_KEYS ==
  {Chars("api") \o sep \o Chars("key") : sep \in OptSeparator}
    \cup {Chars("apikey"), Chars("authorization"), Chars("secret"),
          Chars("password"), Chars("token")}
    \cup {Chars("supabase") \o s1 \o Chars(role) \o s2 \o Chars("key") :
            <<s1, role, s2>> \in OptSeparator \X {"anon", "service"} \X OptSeparator}

\* SENSITIVE_KEYS.test(key): the pattern carries the i flag.
TestSensitiveKey(key) == toLowerCase(key) \in SENSITIVE_KEYS

NoKey == <<>>

RECURSIVE redactValue(_, _)
redactValue(value, key) ==
  IF key # NoKey /\ value.type = "string" /\ TestSensitiveKey(key)
  THEN JString(<<REDACTED>>)
  ELSE IF value.type = "string" THEN JString(redactString(value.tokens))
  ELSE IF value.type = "array"
  THEN JArray([i \in 1..Len(value.items) |-> redactValue(value.items[i], NoKey)])
  ELSE IF value.type = "object"
  THEN JObject([i \in 1..Len(value.entries) |->
                  Entry(value.entries[i].k,
                        redactValue(value.entries[i].v, value.entries[i].k))])
  ELSE value

\* Key names of the objects handed to redact.
InputKeys == {Chars("token"), Chars("Token"), Chars("API_KEY"), Chars("tokens"),
              Chars("name")}

\* Values found under a key: a string, a string holding an API key, a
\* number, a boolean, null, an array and a nested object.
InputLeaves ==
  {JString(<<"abc">>), JString(<<"see", OPENAI_KEY>>), JNumber(12345),
   JBoolean(TRUE), JNull, JArray(<<JString(<<"abc">>)>>),
   JObject(<<Entry(Chars("name"), JString(<<"abc">>))>>)}

\* One-entry objects, bare, and nested in an array or in another object.
RedactInputs ==
  LET objects == {JObject(<<Entry(k, v)>>) : k \in InputKeys, v \in InputLeaves}
  IN objects
       \cup {JArray(<<o>>) : o \in objects}
       \cup {JObject(<<Entry(Chars("name"), o)>>) : o \in objects}
       \cup InputLeaves

\* redact(obj)
Redact ==
  /\ ~fnRet.done
  /\ fnArg.type # "none"
  /\ fnRet' = [done |-> TRUE, value |-> redactValue(fnArg, NoKey)]
  /\ UNCHANGED <<ticketVars, runnerVars, localVars, checkVars, fnArg>>

NextRedact == Redact

InitRedact ==
  /\ store = <<>>
  /\ schema = "migrated"
  /\ InitTurns
  /\ config = [supabaseUrl |-> Undefined, supabaseAnonKey |-> Undefined]
  /\ fnArg \in RedactInputs
  /\ fnRet = NoRet

SpecRedact == InitRedact /\ [][NextRedact]_vars

\* ------------------------------------------------------------------------
\* evaluateTicketReady on its own
\* ------------------------------------------------------------------------
\* Bodies with the five headings in order, each section empty or holding
\* one line.
ReadyInputs ==
  {<<H2(SEC_GOAL)>> \o goal \o <<H2(SEC_DELIVERABLE)>> \o deliverable
     \o <<H2(SEC_AC)>> \o ac \o <<H2(SEC_CONSTRAINTS)>> \o constraints
     \o <<H2(SEC_NONGOALS)>> \o nonGoals :
     goal \in {<<>>, <<Text>>, <<Ph>>},
     deliverable \in {<<>>, <<Text>>},
     ac \in {<<>>, <<Blank>>, <<Check>>, <<Bullet>>},
     constraints \in {<<>>, <<Text>>, <<Check>>},
     nonGoals \in {<<>>, <<Text>>}}

\* evaluateTicketReady(bodyMd)
EvaluateTicketReady ==
  /\ ~fnRet.done
  /\ fnArg.type = "body"
  /\ fnRet' = [done |-> TRUE, value |-> evaluateTicketReady(fnArg.lines)]
  /\ UNCHANGED <<ticketVars, runnerVars, localVars, checkVars, fnArg>>

NextReady == EvaluateTicketReady

InitReady ==
  /\ store = <<>>
  /\ schema = "migrated"
  /\ InitTurns
  /\ config = [supabaseUrl |-> Undefined, supabaseAnonKey |-> Undefined]
  /\ fnArg \in {[type |-> "body", lines |-> b] : b \in ReadyInputs}
  /\ fnRet = NoRet

SpecReady == InitReady /\ [][NextReady]_vars

\* ------------------------------------------------------------------------
\* The conversation section of the context pack
\* ------------------------------------------------------------------------
\* Turns of config.conversationHistory in one run.
MaxHistory == 3

CONVERSATION_RECENT_MAX_CHARS == 12000

\* t.role.length
RoleLength(role) == IF role = "user" THEN 4 ELSE 9

\* A turn: its role, and a content known by a mark and its length.
Turn(role, mark, length) == [role |-> role, content |-> [mark |-> mark, length |-> length]]

\* Content lengths: a short message, one of half the budget, and one
\* longer than the budget.
ContentLengths == {100, 5990, 12500}

\* Histories of up to MaxHistory turns; the mark of a turn is its index.
Histories ==
  UNION {{[i \in 1..n |-> Turn(f[i][1], i, f[i][2])] :
            f \in [1..n -> {"user", "assistant"} \X ContentLengths]} : n \in 0..MaxHistory}

\* The for loop of recentTurnsWithinCharBudget, from turn i down.
RECURSIVE RecentLoop(_, _, _, _, _)
RecentLoop(turns, i, len, recent, maxChars) ==
  IF i = 0 THEN recent
  ELSE LET t == turns[i]
           lineLen == RoleLength(t.role) + t.content.length + 12
       IN IF len + lineLen > maxChars /\ Len(recent) > 0 THEN recent
          ELSE RecentLoop(turns, i - 1, len + lineLen, <<t>> \o recent, maxChars)

recentTurnsWithinCharBudget(turns, maxChars) ==
  IF Len(turns) = 0 THEN [recent |-> <<>>, omitted |-> 0]
  ELSE LET recent == RecentLoop(turns, Len(turns), 0, <<>>, maxChars)
       IN [recent |-> recent, omitted |-> Len(turns) - Len(recent)]

\* buildContextPack without config.conversationContextPack: the section
\* `Conversation so far`, its truncation note and its lines.
ConversationSection ==
  /\ ~fnRet.done
  /\ fnArg.type = "history"
  /\ LET history == fnArg.turns
         r == recentTurnsWithinCharBudget(history, CONVERSATION_RECENT_MAX_CHARS)
     IN fnRet' = [done |-> TRUE,
                  value |-> IF Len(history) > 0
                            THEN [section |-> TRUE, truncNote |-> r.omitted > 0,
                                  lines |-> r.recent]
                            ELSE [section |-> FALSE, truncNote |-> FALSE, lines |-> <<>>]]
  /\ UNCHANGED <<ticketVars, runnerVars, localVars, checkVars, fnArg>>

NextConversation == ConversationSection

InitConversation ==
  /\ store = <<>>
  /\ schema = "migrated"
  /\ InitTurns
  /\ config = [supabaseUrl |-> Undefined, supabaseAnonKey |-> Undefined]
  /\ fnArg \in {[type |-> "history", turns |-> h] : h \in Histories}
  /\ fnRet = NoRet

SpecConversation == InitConversation /\ [][NextConversation]_vars

\* ------------------------------------------------------------------------
\* checkUnassignedTickets
\* ------------------------------------------------------------------------
\* The place of a repository name in ascending order.
RepoRank(repo) ==
  CASE repo = LEGACY_REPO -> 1 [] repo = RepoB -> 2 [] repo = RepoA -> 3 [] OTHER -> 0

\* .order('repo_full_name').order('ticket_number'), and .order('id') of the
\* legacy query: row i comes before row j.
RowBefore(st, i, j) ==
  IF UnknownColumns
  THEN CharsToNum(st[i].id) < CharsToNum(st[j].id)
         \/ (CharsToNum(st[i].id) = CharsToNum(st[j].id) /\ i < j)
  ELSE \/ RepoRank(st[i].repo) < RepoRank(st[j].repo)
       \/ /\ RepoRank(st[i].repo) = RepoRank(st[j].repo)
          /\ (st[i].num < st[j].num \/ (st[i].num = st[j].num /\ i < j))

\* The rows of the select, in its order; the legacy select has no pk.
RECURSIVE SelectAll(_, _)
SelectAll(st, pks) ==
  IF pks = {} THEN <<>>
  ELSE LET m == CHOOSE i \in pks : \A j \in pks \ {i} : RowBefore(st, i, j)
       IN <<[pk |-> IF UnknownColumns THEN 0 ELSE m, id |-> st[m].id, did |-> st[m].did,
             repo |-> st[m].repo, body |-> st[m].body, col |-> st[m].col]>>
          \o SelectAll(st, pks \ {m})

\* row.repo_full_name ?? 'legacy/unknown'
GroupRepo(row) == IF row.repo = NoProject THEN LEGACY_REPO ELSE row.repo

\* The Map of the rows by repository, in the order of insertion.
RECURSIVE GroupsOf(_)
GroupsOf(rows) ==
  IF rows = <<>> THEN <<>>
  ELSE LET repo == GroupRepo(Head(rows))
       IN <<[repo |-> repo,
             rows |-> SelectSeq(rows, LAMBDA r : GroupRepo(r) = repo)]>>
          \o GroupsOf(SelectSeq(rows, LAMBDA r : GroupRepo(r) # repo))

\* displayId ?? id
ReportedId(row) == IF row.did # <<>> THEN row.did ELSE row.id

\* checkUnassignedTickets returns r.
CheckReturns(c, r) == [c EXCEPT !.pc = "done", !.result = r]

CheckError(message) == [moved |-> <<>>, notReady |-> <<>>, error |-> message]

\* The frame of every step of checkUnassignedTickets.
CheckFrame == UNCHANGED <<pc, op, loc, res, trace, ops, schema, runnerVars, localVars,
                          pureVars>>

\* The select of all tickets (with the legacy select when the columns are
\* unknown), the filter on Unassigned and the grouping by repository.
CheckFetch ==
  /\ chk.pc = "idle"
  /\ \E f \in BOOLEAN :
       LET rows == SelectAll(store, Pks(store))
           unassigned == SelectSeq(rows, LAMBDA r : InUnassigned(r.col))
           groups == GroupsOf(unassigned)
           fetched == [chk EXCEPT !.rows = rows, !.groups = groups]
       IN /\ FaultOk(f)
          /\ faults' = faults + (IF f THEN 1 ELSE 0)
          /\ chk' = IF f THEN CheckReturns(chk, CheckError("fetch"))
                    ELSE IF groups = <<>>
                    THEN CheckReturns(fetched, [moved |-> <<>>, notReady |-> <<>>,
                                                error |-> ""])
                    ELSE [fetched EXCEPT !.pc = "group"]
  /\ UNCHANGED store
  /\ CheckFrame

\* The head of the loop over the groups: the next position in To Do, of the
\* repository when the rows carry one.
CheckPosQuery ==
  /\ chk.pc = "group"
  /\ \E f \in BOOLEAN :
       LET group == Head(chk.groups)
           hasRepoCol == group.rows[1].repo # NoProject
           nextTodoPosition == NextTodoPosition(store, IF hasRepoCol THEN group.repo
                                                       ELSE NoProject)
       IN /\ FaultOk(f)
          /\ faults' = faults + (IF f THEN 1 ELSE 0)
          /\ chk' = IF f THEN CheckReturns(chk, CheckError("fetch"))
                    ELSE [chk EXCEPT !.pc = "rows", !.groups = Tail(@),
                                     !.rowsInRepo = group.rows,
                                     !.nextTodoPosition = nextTodoPosition]
  /\ UNCHANGED store
  /\ CheckFrame

\* One pass of the loop over the rows of a group: evaluateTicketReady, and
\* for a ready ticket the update of column and position.
CheckRow ==
  /\ chk.pc = "rows"
  /\ \E f \in BOOLEAN :
       LET row == Head(chk.rowsInRepo)
           ready == evaluateTicketReady(row.body)
           targets == IF row.pk # 0 THEN {row.pk} ELSE ById(store, row.id)
           moved == IF ready.ready /\ ~f THEN Append(chk.moved, ReportedId(row))
                    ELSE chk.moved
           notReady == IF ready.ready THEN chk.notReady
                       ELSE Append(chk.notReady, [id |-> ReportedId(row),
                                                  missingItems |-> ready.missingItems])
           looped == [chk EXCEPT !.rowsInRepo = Tail(@), !.moved = moved,
                                 !.notReady = notReady,
                                 !.nextTodoPosition =
                                    IF ready.ready THEN @ + 1 ELSE @]
       IN /\ FaultOk(f)
          /\ f => ready.ready
          /\ faults' = faults + (IF f THEN 1 ELSE 0)
          /\ store' = IF ready.ready /\ ~f
                      THEN [i \in Pks(store) |->
                              IF i \in targets
                              THEN MoveToTodo(store[i], chk.nextTodoPosition)
                              ELSE store[i]]
                      ELSE store
          /\ chk' = IF Tail(chk.rowsInRepo) # <<>> THEN looped
                    ELSE IF chk.groups # <<>> THEN [looped EXCEPT !.pc = "group"]
                    ELSE CheckReturns(looped, [moved |-> moved, notReady |-> notReady,
                                               error |-> ""])
  /\ CheckFrame

NextCheck ==
  \/ CheckFetch
  \/ CheckPosQuery
  \/ CheckRow

\* Boards the check starts from: two tickets of one repository and one of
\* another, ready or not, in Unassigned, without a column or in To Do; and
\* two boards of the legacy schema.
CheckStores ==
  {<<Row(RepoB, 1, c1, IF c1 = COL_TODO THEN 1 ELSE 0, b1),
     Row(RepoA, 1, c2, 0, b2),
     Row(RepoA, 2, c3, IF c3 = COL_TODO THEN 1 ELSE 0, b3)>> :
     <<c1, c2, c3>> \in {COL_UNASSIGNED, COL_TODO} \X {COL_UNASSIGNED, ""}
                        \X {COL_UNASSIGNED, COL_TODO},
     <<b1, b2, b3>> \in {BodyReady, BodyDraft} \X {BodyReady, BodyDraft}
                        \X {BodyReady, BodyDraft}}

LegacyCheckStores ==
  {<<LegacyRow(1, COL_UNASSIGNED, 0, b1), LegacyRow(2, c2, 0, BodyReady)>> :
     b1 \in {BodyReady, BodyDraft}, c2 \in {"", COL_TODO}}

InitCheck ==
  /\ \/ store \in CheckStores /\ schema = "migrated"
     \/ store \in LegacyCheckStores /\ schema = "legacy"
  /\ InitTurns
  /\ fnArg = NoArg
  /\ fnRet = NoRet

SpecCheck == InitCheck /\ [][NextCheck]_vars

\* ------------------------------------------------------------------------
\* Properties
\* ------------------------------------------------------------------------
\* Turn p has a finished call of tool in res[p].
Done(p, tool) == pc[p] = "idle" /\ res[p].tool = tool

C3_RetryPolicy ==
  \A p \in Procs :
    LET tr == trace[p].tried
        n == Len(tr)
    IN /\ n <= 10
       /\ \A k \in 1..n : tr[k].num = tr[1].num + k - 1
       /\ \A k \in 1..(n - 1) : tr[k].error = "23505"
       /\ pc[p] = "c_insert" =>
            /\ n = loc[p].attempt - 1
            /\ n > 0 => tr[1].num = loc[p].start /\ tr[n].error = "23505"
       /\ (Done(p, "create_ticket") /\ n > 0) =>
            CASE tr[n].error = "" ->
                   /\ res[p].success
                   /\ res[p].attempts = n
                   /\ res[p].num = tr[n].num
                   /\ store[res[p].pk].id = LegacyId(tr[n].num)
              [] tr[n].error = "23505" ->
                   /\ n = 10
                   /\ ~res[p].success
                   /\ res[p].error = "exhausted"
                   /\ trace[p].writes = 0
                   /\ res[p].pk = 0
              [] OTHER ->
                   /\ ~res[p].success
                   /\ res[p].error = "insert"
                   /\ trace[p].writes = 0

\* A create_ticket has given up after 10 refused inserts.
C3_Witness ==
  \E p \in Procs :
    /\ Done(p, "create_ticket")
    /\ res[p].error = "exhausted"
    /\ Len(trace[p].tried) = 10

\* C4: validation precedes mutation.  A create_ticket or update_ticket_body
\* whose input body holds a placeholder token ends in its first step with
\* success:false and the placeholders listed, having issued no store call;
\* the store is unchanged.
C4_ValidationPrecedesMutation ==
  [][\A p \in Procs :
       (/\ pc[p] \in {"c_start", "u_start"}
        /\ Placeholders(op[p].body) # <<>>)
       => /\ trace[p].calls = 0
          /\ pc'[p] # pc[p] =>
               /\ pc'[p] = "idle"
               /\ ~res'[p].success
               /\ res'[p].error = "placeholders"
               /\ res'[p].detected = Placeholders(op[p].body)
               /\ trace'[p].calls = 0
               /\ trace'[p].writes = 0
               /\ store' = store]_vars

\* An update_ticket_body was rejected for its placeholders while the store
\* holds the ticket it names.
C4_Witness ==
  \E p \in Procs :
    /\ Done(p, "update_ticket_body")
    /\ res[p].error = "placeholders"
    /\ res[p].detected # <<>>
    /\ trace[p].calls = 0
    /\ store # <<>>

\* The ids in front of the first Title line of body (<<>> without Title line).
TitleIds(body) ==
  LET titles == {k \in 1..Len(body) : body[k].k = "title"}
  IN IF titles = {} THEN <<>>
     ELSE body[CHOOSE k \in titles : \A j \in titles : k <= j].ids

HasTitleLine(body) == \E k \in 1..Len(body) : body[k].k = "title"

\* C5: readiness gates entry into To Do.  Every step that puts a ticket
\* into a To Do column does so only when the ticket's stored body evaluates
\* as ready.
C5_ReadinessGatesTodo ==
  [][\A i \in Pks(store) :
       (/\ store'[i].col = COL_TODO
        /\ store[i].col # COL_TODO \/ store[i].repo # store'[i].repo)
       => evaluateTicketReady(store'[i].body).ready]_vars

\* C6: kanban_move_ticket_to_todo writes only a ticket whose column at the
\* time of the write is Unassigned (or null/empty), in every interleaving;
\* when it answers 'not in Unassigned' the store is unchanged.
C6_MoveOnlyFromUnassigned ==
  [][\A p \in Procs :
       (op[p].tool = "kanban_move_ticket_to_todo" /\ pc'[p] # pc[p])
       => /\ \A i \in Pks(store) : store'[i] # store[i] => InUnassigned(store[i].col)
          /\ res'[p].error = "not in Unassigned" => store' = store]_vars

\* C7: a cross-repository move is one write.  The step of a successful
\* move gives every row it changes the target repository, the new sequence
\* number, the new display identifier, the To Do column, the new position and
\* a Title line with the new identifier; every other step of the tool,
\* and the step that returns success:false, leave the store unchanged; no
\* other step changes a ticket's repository, number or display identifier.
C7_CrossRepoMoveIsOneWrite ==
  [][/\ \A p \in Procs :
          (op[p].tool = "kanban_move_ticket_to_other_repo_todo" /\ pc'[p] # pc[p])
          => IF pc'[p] = "idle" /\ res'[p].success
             THEN \A i \in Pks(store) :
                    store'[i] # store[i]
                    => /\ store'[i].repo = op[p].target
                       /\ store'[i].num = loc[p].nextNum
                       /\ DisplayPrefix(store'[i].did) = repoHintPrefix(op[p].target)
                       /\ CharsToNum(DisplaySuffix(store'[i].did)) = loc[p].nextNum
                       /\ store'[i].col = COL_TODO
                       /\ store'[i].pos = loc[p].nextPos
                       /\ HasTitleLine(store'[i].body)
                            => TitleIds(store'[i].body)[1] = store'[i].did
             ELSE store' = store
     /\ \A i \in Pks(store) :
          (\/ store'[i].repo # store[i].repo
           \/ store'[i].num # store[i].num
           \/ store'[i].did # store[i].did)
          => \E p \in Procs : /\ pc[p] = "x_update"
                              /\ pc'[p] = "idle"
                              /\ res'[p].success]_vars

\* A cross-repository move has succeeded and its ticket stands in the
\* target's To Do column under the identifier the tool returned.
C7_Witness ==
  \E p \in Procs :
    /\ Done(p, "kanban_move_ticket_to_other_repo_todo")
    /\ res[p].success
    /\ \E i \in Pks(store) : /\ store[i].repo = res[p].repo
                             /\ store[i].did = res[p].did
                             /\ store[i].col = COL_TODO
                             /\ HasTitleLine(store[i].body)

\* C8: the numeric suffix of every stored display identifier equals the
\* ticket's sequence number, also above 9999.
C8_DisplaySuffixIsNumber ==
  \A i \in Pks(store) : CharsToNum(DisplaySuffix(store[i].did)) = store[i].num

\* create_ticket has written a ticket with a sequence number above 9999.
C8_Witness ==
  \E p \in Procs :
    /\ Done(p, "create_ticket")
    /\ res[p].success
    /\ res[p].num > 9999
    /\ store[res[p].pk].num = res[p].num
    /\ store[res[p].pk].did = res[p].did

\* C9: a stored body that has a Title line carries exactly the ticket's
\* current display identifier as the title's id prefix, with or without a
\* project configured.
C9_TitleLineCarriesDisplayId ==
  \A i \in Pks(store) :
    HasTitleLine(store[i].body) => TitleIds(store[i].body) = <<store[i].did>>

\* C10: the positions of the tickets in one column of one repository are
\* pairwise distinct, and a ticket entering a column gets a position above
\* every position already in it.
C10_PositionsUniqueAndIncreasing ==
  [][/\ \A i, j \in Pks(store') :
          (i # j /\ store'[i].repo = store'[j].repo /\ store'[i].col = store'[j].col)
          => store'[i].pos # store'[j].pos
     /\ \A i \in Pks(store') :
          (\/ i \notin Pks(store)
           \/ store[i].repo # store'[i].repo
           \/ store[i].col # store'[i].col)
          => \A j \in Pks(store) :
               (j # i /\ store[j].repo = store'[i].repo /\ store[j].col = store'[i].col)
               => store'[i].pos > store[j].pos]_vars

\* C11: sequence numbers are gapless when creates run one after the other.
\* The query of create_ticket yields one above the largest number of the
\* ticket's repository scope (1 for an empty scope).  A first insert attempt
\* whose start number is still one above the scope's maximum (nobody changed
\* the scope's maximum since the query), which the store neither fails nor
\* refuses by force, stores the ticket under that number: m + 1, then m + 2
\* for the next create, and so on.
C11_GaplessSequentialNumbers ==
  [][\A p \in Procs :
       LET scope == CreateRepo(op[p].project)
           nums == {store[i].num : i \in {j \in Pks(store) : store[j].repo = scope}}
           m == IF nums = {} THEN 0 ELSE CHOOSE n \in nums : \A k \in nums : k <= n
       IN /\ (pc[p] = "c_start" /\ pc'[p] = "c_insert") => loc'[p].start = m + 1
          /\ (/\ pc[p] = "c_insert"
              /\ loc[p].start = m + 1
              /\ loc[p].attempt = 1
              /\ op[p].forced = 0
              /\ Len(trace'[p].tried) = Len(trace[p].tried) + 1
              /\ faults' = faults)
             => /\ Len(store') = Len(store) + 1
                /\ store'[Len(store')].repo = scope
                /\ store'[Len(store')].num = m + 1]_vars

\* Two create_ticket calls ran one after the other for one repository that
\* already held tickets; each inserted on its first attempt, and their
\* numbers are the next two above the earlier maximum.
C11_Witness ==
  \E p, q \in Procs :
    /\ p # q
    /\ Done(p, "create_ticket") /\ res[p].success /\ res[p].attempts = 1
    /\ Done(q, "create_ticket") /\ res[q].success /\ res[q].attempts = 1
    /\ res[p].repo = res[q].repo
    /\ res[p].pk < res[q].pk
    /\ store[res[p].pk].num = res[p].num
    /\ store[res[q].pk].num = res[q].num
    /\ res[q].num = res[p].num + 1
    /\ \E i \in Pks(store) : /\ i < res[p].pk
                             /\ store[i].repo = res[p].repo
                             /\ store[i].num = res[p].num - 1

\* C12: a failed auto-move does not roll back the creation.  create_ticket
\* inserts its ticket into the Unassigned column; when the body is ready and
\* the To Do position query or the move update fails, that step leaves the
\* store as it is, the created row still stored, and the tool returns
\* success:true with the created identifiers and a moveError.
C12_MoveErrorKeepsCreation ==
  [][\A p \in Procs :
       /\ (pc[p] = "c_insert" /\ pc'[p] \in {"c_fix", "c_pos"})
          => /\ Len(store') = Len(store) + 1
             /\ store'[Len(store')].col = COL_UNASSIGNED
             /\ loc'[p].pk = Len(store')
       /\ (pc[p] \in {"c_pos", "c_move"} /\ pc'[p] = "idle" /\ ~res'[p].moved)
          => /\ res'[p].success
             /\ res'[p].ready
             /\ res'[p].moveError
             /\ res'[p].pk = loc[p].pk
             /\ res'[p].num = NextCandidate(loc[p].start, loc[p].attempt)
             /\ CharsToNum(DisplaySuffix(res'[p].did)) = res'[p].num
             /\ res'[p].pk \in Pks(store')
             /\ store' = store]_vars

\* A create_ticket with a ready body met a store failure in its auto-move:
\* it returned success with a moveError, and its ticket stands in Unassigned.
C12_Witness ==
  \E p \in Procs :
    /\ Done(p, "create_ticket")
    /\ res[p].success /\ res[p].ready /\ res[p].moveError /\ ~res[p].moved
    /\ store[res[p].pk].num = res[p].num
    /\ store[res[p].pk].did = res[p].did
    /\ store[res[p].pk].col = COL_UNASSIGNED

\* C13: a create_ticket with a ready body in a repository whose To Do
\* column is empty returns success:true and ready:true and leaves its ticket
\* in To Do at position 0.
C13_FirstTodoPositionIsZero ==
  [][\A p \in Procs :
       (/\ pc[p] = "c_move"
        /\ pc'[p] = "idle"
        /\ res'[p].moved
        /\ ~\E i \in Pks(store) : /\ store[i].col = COL_TODO
                                  /\ store[i].repo = CreateRepo(op[p].project))
       => /\ res'[p].success
          /\ res'[p].ready
          /\ store'[res'[p].pk].col = COL_TODO
          /\ store'[res'[p].pk].pos = 0]_vars

MutationTools ==
  {"create_ticket", "update_ticket_body", "kanban_move_ticket_to_todo",
   "kanban_move_ticket_to_other_repo_todo"}

\* C15: a turn of runPmAgent follows only the transitions building-context
\* -> failed | awaiting-completion, awaiting-completion <-> executing-tool,
\* awaiting-completion -> done | failed; done and failed are final; done
\* carries a result without error, failed a result with error and errorPhase;
\* and at most 10 requests go to the completion endpoint.
C15_TurnStateMachine ==
  [][/\ \/ phase' = phase
        \/ <<phase, phase'>> \in
             {<<"building-context", "failed">>,
              <<"building-context", "awaiting-completion">>,
              <<"awaiting-completion", "executing-tool">>,
              <<"executing-tool", "awaiting-completion">>,
              <<"awaiting-completion", "done">>,
              <<"awaiting-completion", "failed">>}
     /\ steps' <= 10
     /\ phase' = "done" => result'.error = "" /\ result'.errorPhase = ""
     /\ phase' = "failed" => result'.error # "" /\ result'.errorPhase # ""]_vars

\* C16: a failed turn returns an empty reply with an error message and an
\* errorPhase; a turn that failed before any completion request failed in the
\* context-pack phase, and its result has an empty tool-call list and an
\* empty outbound request.
C16_FailedTurnResult ==
  phase = "failed"
  => /\ result.reply = NoReply
     /\ result.error # ""
     /\ result.errorPhase # ""
     /\ (steps = 0) = (result.errorPhase = "context-pack")
     /\ result.errorPhase = "context-pack"
        => /\ capturedRequest = NoRequest
           /\ result.toolCalls = <<>>
           /\ result.outboundRequest = NoRequest

\* A turn failed in buildContextPack: no request was sent.
C16_Witness ==
  /\ phase = "failed"
  /\ steps = 0
  /\ result.errorPhase = "context-pack"
  /\ result.toolCalls = <<>>

\* C17: the errorPhase tells where the turn failed: 'context-pack' for a
\* failure of buildContextPack, 'openai' for a failure of the completion
\* call, 'tool' for a tool that failed while running; a failure raised in a
\* tool is never reported as 'openai'.
C17_ErrorPhaseTellsOrigin ==
  [][(phase # "failed" /\ phase' = "failed")
     => result'.errorPhase =
          (CASE phase = "building-context" -> "context-pack"
             [] phase = "awaiting-completion" -> "openai"
             [] phase = "executing-tool" -> "tool"
             [] OTHER -> "")]_vars

\* C18: the outbound-request snapshot is set at most once per turn, from the
\* first request sent to the completion endpoint; and the outboundRequest of
\* every result is the redacted copy of that first request, or the empty
\* object when none was captured, with no token left that a redaction
\* pattern matches.
C18_SnapshotOnceAndRedacted ==
  [][/\ capturedRequest # NoRequest => capturedRequest' = capturedRequest
     /\ capturedRequest' # capturedRequest
        => capturedRequest' = RequestBody(1, contextPack') /\ steps' = 1
     /\ phase' \in {"done", "failed"}
        => /\ result'.outboundRequest =
                (IF steps' = 0 THEN NoRequest
                 ELSE [n |-> 1, input |-> redactString(contextPack')])
           /\ \A i \in 1..Len(result'.outboundRequest.input) :
                result'.outboundRequest.input[i] \notin {OPENAI_KEY, JWT, SUPABASE_URL}]_vars

\* A turn whose prompt holds secrets sent three requests and ended in done:
\* its outboundRequest is the first request, redacted.
C18_Witness ==
  /\ phase = "done"
  /\ steps = 3
  /\ OPENAI_KEY \in {contextPack[i] : i \in 1..Len(contextPack)}
  /\ capturedRequest = RequestBody(1, contextPack)
  /\ result.outboundRequest.n = 1
  /\ result.outboundRequest # capturedRequest
  /\ REDACTED \in {result.outboundRequest.input[i] :
                     i \in 1..Len(result.outboundRequest.input)}

\* C19: when a turn ends in done with an empty model reply and its Tool Call
\* Record holds several calls of ticket-changing tools, the synthesized reply
\* reports the outcome of the last one.
C19_FallbackReportsLastMutation ==
  LET muts == {i \in 1..Len(result.toolCalls) : result.toolCalls[i].name \in MutationTools}
  IN (phase = "done" /\ result.reply.kind # "text" /\ Cardinality(muts) >= 2)
     => result.reply.about =
          result.toolCalls[CHOOSE i \in muts : \A j \in muts : j <= i].output

\* C20: when a turn ends in done and its Tool Call Record holds a failed tool
\* call (success:false with an error text), the reply refers to that error
\* text, also when the model produced no text.
C20_ReplyReferencesToolError ==
  LET failed == {i \in 1..Len(result.toolCalls) :
                   /\ ~result.toolCalls[i].output.success
                   /\ result.toolCalls[i].output.error # ""}
  IN (phase = "done" /\ result.reply.kind # "text" /\ failed # {})
     => \E i \in failed : /\ result.reply.about = result.toolCalls[i].output
                          /\ result.reply.about.error = result.toolCalls[i].output.error

\* C21: the tools handed to generateText contain each store-accessing tool
\* exactly when supabaseUrl and supabaseAnonKey are both strings with a
\* character that is not white space; list_directory, read_file,
\* search_files and evaluate_ticket_ready are always among them.
C21_StoreToolsNeedCredentials ==
  LET nonBlank(v) == v.defined /\ \E i \in 1..Len(v.value) : ~IsSpace(v.value[i])
      configured == nonBlank(config.supabaseUrl) /\ nonBlank(config.supabaseAnonKey)
  IN phase \in {"awaiting-completion", "executing-tool", "done"}
     => /\ \A t \in {"create_ticket", "fetch_ticket_content", "update_ticket_body",
                      "kanban_move_ticket_to_todo",
                      "kanban_move_ticket_to_other_repo_todo",
                      "list_tickets_by_column", "list_available_repos"} :
             t \in tools <=> configured
        /\ {"list_directory", "read_file", "search_files", "evaluate_ticket_ready"}
             \subseteq tools
        /\ \A i \in 1..Len(toolCalls) : toolCalls[i].name \in tools

\* A turn whose URL is configured and whose key is blank ran read_file and
\* has no create_ticket among its tools.
C21_Witness ==
  /\ phase = "done"
  /\ config.supabaseUrl = Str(<<" ", "u", " ">>)
  /\ config.supabaseAnonKey = Str(<<" ">>)
  /\ "create_ticket" \notin tools
  /\ \E i \in 1..Len(toolCalls) : toolCalls[i].name = "read_file"

\* The path that p resolves to lies in the repo root or below it.
InsideRoot(p) ==
  LET rootSegs == ResolvedSegments(RepoRoot, <<".">>)
      segs == ResolvedSegments(RepoRoot, IF p = <<>> THEN <<".">> ELSE p)
  IN Len(segs) >= Len(rootSegs) /\ SubSeq(segs, 1, Len(rootSegs)) = rootSegs

\* C22: sandboxPath returns no result for every path that resolves outside
\* the root, and the resolved absolute path for every path that resolves
\* inside it, also when a file or directory name begins with two dots.
C22_SandboxAcceptsExactlyInside ==
  /\ \A i \in 1..Len(fsLog) :
        fsLog[i].fn = "sandboxPath" => (fsLog[i].ok <=> InsideRoot(fsLog[i].arg))
  /\ (call.tool \in {"list_directory", "read_file"} /\ call.pc = "fs")
       => call.safe = resolve(RepoRoot, IF call.path = <<>> THEN <<".">> ELSE call.path)

\* The directory that holds an absolute path.
Dirname(path) == resolve(path, <<".", ".">>)

\* C23: list_directory, read_file and search_files call sandboxPath before
\* any call of fs; every path handed to fs is the result of an earlier
\* sandboxPath call that accepted it (for the files read by search_files: an
\* entry of a directory so accepted), and no path that sandboxPath rejected is
\* handed to fs; a path that escapes and a path that does not exist end in
\* an error output, and no call ends in an exception.
C23_SandboxBeforeFilesystem ==
  LET IsFs(e) == e.fn \in {"readdir", "readFile"}
      Accepted(i, path) ==
        \E j \in 1..(i - 1) :
           /\ fsLog[j].fn = "sandboxPath" /\ fsLog[j].ok
           /\ resolve(RepoRoot, IF fsLog[j].arg = <<>> THEN <<".">> ELSE fsLog[j].arg) = path
  IN /\ fsLog # <<>> => fsLog[1].fn = "sandboxPath"
     /\ \A i \in 1..Len(fsLog) :
           IsFs(fsLog[i]) =>
             \/ Accepted(i, fsLog[i].arg)
             \/ /\ call.tool = "search_files"
                /\ fsLog[i].fn = "readFile"
                /\ Accepted(i, Dirname(fsLog[i].arg))
     /\ \A i, j \in 1..Len(fsLog) :
           (fsLog[i].fn = "sandboxPath" /\ ~fsLog[i].ok /\ IsFs(fsLog[j]))
             => fsLog[j].arg # resolve(RepoRoot, fsLog[i].arg)
     /\ toolOut.kind # "thrown"
     /\ (call.pc = "done" /\ call.tool \in {"list_directory", "read_file"})
          => LET target == resolve(RepoRoot, IF call.path = <<>> THEN <<".">> ELSE call.path)
             IN /\ ~InsideRoot(call.path)
                   => toolOut = ErrorOut("Path escapes repo sandbox") /\ Len(fsLog) = 1
                /\ (~IsDir(target) /\ ~IsFile(target)) => toolOut.kind = "error"
                /\ toolOut.kind \in {"error", "entries", "content"}
     /\ (call.pc = "done" /\ call.tool = "search_files")
          => toolOut.kind \in {"error", "matches"}

\* A list_directory of a path that does not exist inside the root ended
\* with the error that fs.readdir raised, after one sandboxPath call; and
\* the path is not one that escapes.
C23_Witness ==
  /\ call.tool = "list_directory" /\ call.pc = "done"
  /\ call.path = <<"d", "/", "m", "i", "s", "s">>
  /\ toolOut = ErrorOut("ENOENT")
  /\ Len(fsLog) = 2 /\ fsLog[1].fn = "sandboxPath" /\ fsLog[2].fn = "readdir"

\* C24: the result that runPmAgent returns carries no secret: no token that
\* a redaction pattern matches stands in the output of a recorded tool call,
\* in the error text or in the outbound request.
C24_NoSecretInResult ==
  phase \in {"done", "failed"}
  => /\ \A i \in 1..Len(result.toolCalls) :
          \A k \in 1..Len(result.toolCalls[i].output.content) :
             result.toolCalls[i].output.content[k] \notin Secrets
     /\ result.error \notin Secrets
     /\ \A k \in 1..Len(result.outboundRequest.input) :
          result.outboundRequest.input[k] \notin Secrets

\* C25: create_ticket works against a store without the scoping columns
\* when a project is configured.  With no store failure in the run, a
\* successful create_ticket has stored its row under the legacy id of its
\* number; the only call of a run numbers its ticket one past the largest
\* legacy id; and a ready ticket ends in the To Do column with no moveError.
C25_LegacyCreateReachesTodo ==
  \A p \in Procs :
    (/\ schema = "legacy"
     /\ Done(p, "create_ticket")
     /\ res[p].success
     /\ res[p].repo # LEGACY_REPO
     /\ faults = 0)
    => /\ res[p].pk \in Pks(store)
       /\ store[res[p].pk].id = LegacyId(res[p].num)
       /\ ops = 1 => res[p].num = LegacyMaxId(SubSeq(store, 1, res[p].pk - 1)) + 1
       /\ res[p].ready
            => /\ res[p].moved
               /\ ~res[p].moveError
               /\ store[res[p].pk].col = COL_TODO

\* C26: a store failure is surfaced with the store's message.  A
\* fetch_ticket_content whose query the store fails returns success:false
\* with the error of the store, not `ticket not found`.
C26_StoreFailureSurfaced ==
  [][\A p \in Procs :
       (/\ pc[p] = "f_start"
        /\ pc'[p] = "idle"
        /\ faults' = faults + 1)
       => /\ ~res'[p].success
          /\ res'[p].error = "fetch"]_vars

\* C27: a uniqueness violation met while allocating a number is retried.
\* An operation that allocates a ticket number (create_ticket,
\* kanban_move_ticket_to_other_repo_todo) and finds at its write that
\* another ticket of the repository has taken the number it computed, with
\* the store itself working, surfaces the conflict only on the last of
\* MAX_CREATE_TICKET_RETRIES attempts.
C27_ConflictRetriedBeforeSurfaced ==
  [][\A p \in Procs :
       (/\ pc[p] \in {"c_insert", "x_update"}
        /\ IF pc[p] = "c_insert"
           THEN ByRepoNum(store, CreateRepo(op[p].project),
                          NextCandidate(loc[p].start, loc[p].attempt)) # {}
           ELSE ByRepoNum(store, op[p].target, loc[p].nextNum)
                  \ UpdateRows(store, loc[p].pk, loc[p].num) # {}
        /\ pc'[p] = "idle"
        /\ res'[p].error \in {"exhausted", "update"}
        /\ faults' = faults)
       => loc[p].attempt >= MAX_CREATE_TICKET_RETRIES]_vars

\* Every entry of in whose key SENSITIVE_KEYS matches, and whose value is
\* not null, has the value [REDACTED] in out, at any depth.
RECURSIVE SecretKeysRedacted(_, _)
SecretKeysRedacted(in, out) ==
  IF in.type = "array"
  THEN /\ out.type = "array"
       /\ Len(out.items) = Len(in.items)
       /\ \A i \in 1..Len(in.items) : SecretKeysRedacted(in.items[i], out.items[i])
  ELSE IF in.type = "object"
  THEN /\ out.type = "object"
       /\ Len(out.entries) = Len(in.entries)
       /\ \A i \in 1..Len(in.entries) :
            /\ out.entries[i].k = in.entries[i].k
            /\ IF TestSensitiveKey(in.entries[i].k) /\ in.entries[i].v.type # "null"
               THEN out.entries[i].v = JString(<<REDACTED>>)
               ELSE SecretKeysRedacted(in.entries[i].v, out.entries[i].v)
  ELSE TRUE

\* C28: redact replaces the value of every key named like a reserved
\* secret, whatever the shape of the value (string, number, boolean, array,
\* nested object) and at any nesting depth.
C28_SecretKeysRedactedWhateverShape ==
  fnRet.done => SecretKeysRedacted(fnArg, fnRet.value)

\* The lines of a section as the document has them: those between the
\* `## <title>` heading and the next `## ` heading.
SectionLines(body, sectionTitle) ==
  LET heads == {i \in 1..Len(body) :
                  body[i].k = "h" /\ body[i].level = 2 /\ body[i].txt = sectionTitle}
  IN IF heads = {} THEN <<>>
     ELSE LET h == CHOOSE i \in heads : \A j \in heads : i <= j
              next == {i \in (h + 1)..Len(body) : body[i].k = "h" /\ body[i].level = 2}
              e == IF next = {} THEN Len(body)
                   ELSE (CHOOSE i \in next : \A j \in next : i <= j) - 1
          IN SubSeq(body, h + 1, e)

\* A section with a line that is not empty.
Populated(body, sectionTitle) ==
  \E i \in 1..Len(SectionLines(body, sectionTitle)) :
     SectionLines(body, sectionTitle)[i].k # "blank"

\* C29: evaluateTicketReady never returns ready for a body whose Acceptance
\* criteria section has no `- [ ]` line, and always returns ready for a body
\* whose five sections are populated, that holds no placeholder, and whose
\* Acceptance criteria section has a `- [ ]` line.
C29_ReadyIffCheckboxAndSections ==
  (fnRet.done /\ fnArg.type = "body") =>
     LET body == fnArg.lines
         acHasCheckbox == \E i \in 1..Len(SectionLines(body, SEC_AC)) :
                             SectionLines(body, SEC_AC)[i].k = "check"
     IN /\ ~acHasCheckbox => ~fnRet.value.ready
        /\ (/\ \A t \in {SEC_GOAL, SEC_DELIVERABLE, SEC_AC, SEC_CONSTRAINTS,
                           SEC_NONGOALS} : Populated(body, t)
            /\ \A i \in 1..Len(body) : body[i].k # "ph"
            /\ acHasCheckbox)
           => fnRet.value.ready

\* Whether a path matches a simple glob: `**` stands for any run of
\* characters, `*` for any run of characters other than the separator, and
\* every other character for itself.
RECURSIVE SimpleGlobMatch(_, _, _, _)
SimpleGlobMatch(glob, i, rel, j) ==
  IF i > Len(glob) THEN j > Len(rel)
  ELSE IF glob[i] = "*" /\ i < Len(glob) /\ glob[i + 1] = "*"
  THEN \E k \in j..(Len(rel) + 1) : SimpleGlobMatch(glob, i + 2, rel, k)
  ELSE IF glob[i] = "*"
  THEN \E k \in j..(Len(rel) + 1) :
          /\ \A t \in j..(k - 1) : rel[t] # "/"
          /\ SimpleGlobMatch(glob, i + 1, rel, k)
  ELSE /\ j <= Len(rel)
       /\ rel[j] = glob[i]
       /\ SimpleGlobMatch(glob, i + 1, rel, j + 1)

\* C30: search_files returns at most 100 matches; every match comes from a
\* file whose path relative to the root matches the glob, that stands under
\* no node_modules or .git directory, and carries the 1-based index of a
\* line of that file that the pattern matches; a pattern that is not a
\* regular expression yields an error output, not an exception.
C30_SearchMatchesWithinGlob ==
  (call.tool = "search_files" /\ call.pc = "done") =>
     IF ~PatternCompiles(call.pattern)
     THEN toolOut = ErrorOut("Invalid regex pattern")
     ELSE /\ toolOut.kind = "matches"
          /\ Len(toolOut.matches) <= MAX_MATCHES
          /\ \A n \in 1..Len(toolOut.matches) :
               LET m == toolOut.matches[n]
                   full == join(RepoRoot, m.path)
                   segs == Segments(m.path, 1, <<>>)
               IN /\ SimpleGlobMatch(GlobPattern(call.glob), 1, m.path, 1)
                  /\ \A k \in 1..Len(segs) : segs[k] \notin {NODE_MODULES, DOT_GIT}
                  /\ IsFile(full)
                  /\ m.line \in 1..Len(FileLines(full))
                  /\ PatternTest(call.pattern, FileLines(full)[m.line])

\* C31: a cross-repository move numbers the ticket one past the largest
\* sequence number of the target repository, and with the ticket's own
\* number (the one it had when the tool looked it up) when the target holds
\* no ticket; the rows it writes carry that number and the display
\* identifier made of the target's prefix and the number padded to 4 digits.
C31_CrossRepoMoveNumber ==
  [][\A p \in Procs :
       LET inTarget == {i \in Pks(store) : store[i].repo = op[p].target}
           found == Lookup(store, op[p].project, parseTicketNumber(op[p].ref), FALSE)
       IN op[p].tool = "kanban_move_ticket_to_other_repo_todo" =>
          /\ (pc[p] = "x_start" /\ pc'[p] = "x_check")
             => loc'[p].num = store[found.row].num
          /\ (pc[p] = "x_num" /\ pc'[p] = "x_pos")
             => IF inTarget # {}
                THEN /\ \A i \in inTarget : store[i].num < loc'[p].nextNum
                     /\ \E j \in inTarget : store[j].num + 1 = loc'[p].nextNum
                ELSE loc'[p].nextNum = loc[p].num
          /\ (pc[p] = "x_update" /\ pc'[p] = "idle" /\ res'[p].success)
             => \A i \in UpdateRows(store, loc[p].pk, loc[p].num) :
                  /\ store'[i].num = loc[p].nextNum
                  /\ store'[i].did = repoHintPrefix(op[p].target) \o <<"-">>
                                       \o PadStart4(NumToChars(loc[p].nextNum))]_vars

C33_EmptySectionNeverReady ==
  (fnRet.done /\ fnArg.type = "body") =>
     \A t \in {SEC_GOAL, SEC_DELIVERABLE, SEC_CONSTRAINTS, SEC_NONGOALS} :
        ~Populated(fnArg.lines, t) => ~fnRet.value.ready

\* role length + content length + 12, summed over turns.
RECURSIVE RenderedLength(_)
RenderedLength(turns) ==
  IF turns = <<>> THEN 0
  ELSE RoleLength(Head(turns).role) + Head(turns).content.length + 12
         + RenderedLength(Tail(turns))

\* C34: without a pre-built summary, the turns rendered in the context pack
\* are a suffix of the history in its order, their rendered length (role +
\* content + 12 per turn) is at most 12,000 characters for every history,
\* and the note on omitted messages is there exactly when a turn was
\* dropped.
C34_RecentTurnsWithinBudget ==
  (fnRet.done /\ fnArg.type = "history") =>
     LET history == fnArg.turns
         lines == fnRet.value.lines
     IN /\ Len(lines) <= Len(history)
        /\ lines = SubSeq(history, Len(history) - Len(lines) + 1, Len(history))
        /\ RenderedLength(lines) <= CONVERSATION_RECENT_MAX_CHARS
        /\ fnRet.value.truncNote <=> Len(lines) < Len(history)

\* C35: the result of checkUnassignedTickets accounts for every ticket that
\* was in Unassigned or without a column: its id is in moved exactly when
\* the call has put it into To Do, every other such ticket is in notReady,
\* and a result with an error means that no ticket was moved.
C35_CheckResultAccountsForTickets ==
  chk.pc = "done" =>
     LET r == chk.result
         unassigned == {k \in 1..Len(chk.rows) : InUnassigned(chk.rows[k].col)}
         InTodoNow(k) == \E i \in Pks(store) : /\ store[i].id = chk.rows[k].id
                                               /\ store[i].repo = chk.rows[k].repo
                                               /\ store[i].col = COL_TODO
         InMoved(k) == \E n \in 1..Len(r.moved) : r.moved[n] = ReportedId(chk.rows[k])
         InNotReady(k) == \E n \in 1..Len(r.notReady) :
                             r.notReady[n].id = ReportedId(chk.rows[k])
     IN /\ \A k \in unassigned : InMoved(k) <=> InTodoNow(k)
        /\ r.error = "" => \A k \in unassigned : ~InMoved(k) => InNotReady(k)
        /\ r.error # "" => \A k \in unassigned : ~InTodoNow(k)

\* C36: with the glob '**/*', given or by default, search_files reads every
\* file under the root that stands under no node_modules or .git directory,
\* the files directly in the root directory included.
C36_DefaultGlobSearchesAllFiles ==
  (/\ call.tool = "search_files" /\ call.pc = "done"
   /\ PatternCompiles(call.pattern)
   /\ GlobPattern(call.glob) = DEFAULT_GLOB) =>
     \A d \in FsDirs : \A e \in 1..Len(d.entries) :
        LET full == join(d.path, d.entries[e].name)
            rel == relative(RepoRoot, full)
            segs == Segments(rel, 1, <<>>)
        IN (/\ d.entries[e].kind = "file"
            /\ Len(d.path) >= Len(RepoRoot)
            /\ SubSeq(d.path, 1, Len(RepoRoot)) = RepoRoot
            /\ (d.path = RepoRoot \/ d.path[Len(RepoRoot) + 1] = "/")
            /\ \A k \in 1..Len(segs) : segs[k] \notin {NODE_MODULES, DOT_GIT})
           => \E n \in 1..Len(fsLog) : fsLog[n] = LogEntry("readFile", full, TRUE)

\* C37: a successful kanban_move_ticket_to_todo changes one row at most, the
\* row of the ticket it was called for, and of that row the column and the
\* position only: repository, sequence number, display identifier, legacy id
\* and body stay as they were, and the table keeps its rows.
C37_MoveToTodoFrame ==
  [][\A p \in Procs :
       (/\ op[p].tool = "kanban_move_ticket_to_todo"
        /\ pc[p] = "m_update" /\ pc'[p] = "idle" /\ res'[p].success)
       => LET changed == {i \in Pks(store) : store'[i] # store[i]}
              ticketNumber == parseTicketNumber(op[p].ref)
          IN /\ Len(store') = Len(store)
             /\ Cardinality(changed) <= 1
             /\ \A i \in changed :
                  /\ store'[i] = [store[i] EXCEPT !.col = COL_TODO, !.pos = store'[i].pos]
                  /\ IF loc[p].pk # 0 THEN i = loc[p].pk
                     ELSE store[i].id = LegacyId(ticketNumber)]_vars

C39_ReadyResultConsistent ==
  fnRet.done =>
     LET r == fnRet.value
         c == r.checklistResults
     IN /\ r.ready <=> r.missingItems = <<>>
        /\ r.ready <=> (/\ c.goal /\ c.deliverable /\ c.acceptanceCriteria
                        /\ c.constraintsNonGoals /\ c.noPlaceholders)

\* evaluateTicketReady has returned for a body that lacks nothing but the
\* Non-goals: not ready, one item missing, one flag false.
C39_Witness ==
  /\ fnRet.done
  /\ ~fnRet.value.ready
  /\ fnRet.value.missingItems = <<"Non-goals section missing or empty">>
  /\ fnRet.value.checklistResults =
       [goal |-> TRUE, deliverable |-> TRUE, acceptanceCriteria |-> TRUE,
        constraintsNonGoals |-> FALSE, noPlaceholders |-> TRUE]

====
